---- MODULE Spec2Model ----
(***************************************************************************)
(* Model of the reminder scheduling engine of notify_bot.                  *)
(*                                                                         *)
(* Three scheduling code paths live in the repository and never run in the *)
(* same process; the variable app says which one a behaviour is about:     *)
(*   "reminder"  src/some/db.py   Reminder rows, jobs reminder:<id>,       *)
(*                                delivery_log ledger                      *)
(*   "alert"     src/alerts.py + src/db.py   Alert rows, jobs alert:<id>   *)
(*   "csv"       src/tools.py     CSV rows, jobs <alert_id>...             *)
(* Time is a natural number of seconds; NoTime stands for None / NULL.     *)
(***************************************************************************)
EXTENDS Integers, FiniteSets, Sequences, Bags, TLC

\* ------------------------------------------------------------------ bounds
MaxTime == 2
MaxFires == 2
MaxRows == 4

\* ahead_seconds: int = 1 (default argument of rehydrate_scheduler_from_db)
AheadSeconds == 1

NoTime == -1

Times == 0..MaxTime

\* the ReminderStatus values no schedule follows
Terminal == {"done", "cancelled"}
\* MisfirePolicy
Policies == {"send", "skip", "reschedule"}

\* Recurrence rules: FREQ=SECONDLY;INTERVAL=interval[;COUNT=count], dtstart =
\* run_at_utc.  count = 0 means no COUNT part (unbounded).  NoRule is the
\* absent rrule (None or the empty string).
NoRule == [interval |-> 0, count |-> 0]
\* a stored rrule text dateutil's rrulestr cannot parse
BadRule == [interval |-> -1, count |-> 0]
Rules == {[interval |-> 2, count |-> 0], [interval |-> 1, count |-> 2]}

VARIABLES
    app,         \* which code path runs: "reminder", "alert" or "csv"
    now,         \* the wall clock (utcnow())
    reminders,   \* reminders table: id -> row, domain = existing ids
    alerts,      \* alerts table (src/db.py): id -> row
    csv,         \* the alerts CSV file (src/tools.py): alert_id -> row
    jobs,        \* the scheduler's job store: a bag of jobs
    inflight,    \* per job id: the running instance of the job function
    ledger,      \* delivery_log table: set of rows
    deliveries,  \* per reminder: how often the delivery callback was invoked
    created,     \* ids create_reminder has handed out
    aborted,     \* reminders with a fire killed by a process restart
    last,        \* the last operation: [op, id, ok]
    outcome,     \* how the last run of an alert or CSV job function ended
    calls,       \* per session: its log_delivery_attempt call in progress
    returned,    \* what the last rehydrate_scheduler_from_db call returned
    fcall,       \* a call of a pure function: its name and arguments
    result,      \* what that call gave: pending, a returned value, an exception
    fsm          \* the dialogue of one chat: FSM state, FSM data, what was done

vars == <<app, now, reminders, alerts, csv, jobs, inflight, ledger, deliveries,
          created, aborted, last, outcome, calls, returned,
          fcall, result, fsm>>

\* ------------------------------------------------------------ pure helpers

\* no pure-function call under way
NoCall == [fn |-> "none"]
NoResult == [state |-> "none"]
Pending == [state |-> "pending"]
Returned(v) == [state |-> "returned", value |-> v]
Raised(e) == [state |-> "raised", error |-> e]

\* FSM data after state.clear(), and the keys the handlers here read or write
NoData ==
    [pending_kind |-> "", pending_run_at |-> NoTime, expected |-> "",
     invoice_chat_id |-> 0, invoice_message_id |-> 0]

\* one chat's dialogue: FSM state and data, the last reply, how often the
\* wrapped handler ran and how often bot.delete_message was called
Dialogue(state, data) ==
    [state |-> state, data |-> data, reply |-> "", handled |-> 0, deletes |-> 0]

NoDialogue == Dialogue("", NoData)

reminder_job_id(reminder_id) == <<"reminder", reminder_id>>

\* faulty variant of rule_after: rrule.after(t, inc=True), first occurrence at or after t
rule_after_inc(rule, dtstart, t) ==
    LET k == IF t <= dtstart THEN 0 ELSE ((t - dtstart - 1) \div rule.interval) + 1
    IN  IF rule.count > 0 /\ k >= rule.count
        THEN NoTime
        ELSE dtstart + k * rule.interval

\* dateutil rrule.after(t, inc=False): first occurrence strictly after t
rule_after(rule, dtstart, t) ==
    LET k == IF t < dtstart THEN 0 ELSE ((t - dtstart) \div rule.interval) + 1
    IN  IF rule.count > 0 /\ k >= rule.count
        THEN NoTime
        ELSE dtstart + k * rule.interval

\* x is an occurrence of the rule started at dtstart
Occurs(rule, dtstart, x) ==
    /\ x >= dtstart
    /\ (x - dtstart) % rule.interval = 0
    /\ rule.count > 0 => (x - dtstart) \div rule.interval < rule.count

\* the occurrences strictly after t (those up to a horizon past the last one
\* of a counted rule, and past the next one of an uncounted rule)
OccurrencesAfter(rule, dtstart, t) ==
    LET top == IF t > dtstart THEN t ELSE dtstart
    IN  {x \in (t + 1)..(top + rule.interval * (rule.count + 1)) :
            Occurs(rule, dtstart, x)}

\* faulty variant of compute_next_run: a one-shot instant equal to `after`
\* still counts as ahead
compute_next_run_inclusive(rrule_str, run_at_utc, after) ==
    IF rrule_str # NoRule
    THEN rule_after(rrule_str, run_at_utc, after)
    ELSE IF run_at_utc # NoTime /\ run_at_utc >= after
         THEN run_at_utc
         ELSE NoTime

compute_next_run(rrule_str, run_at_utc, after) ==
    IF rrule_str # NoRule
    THEN rule_after(rrule_str, run_at_utc, after)
    ELSE IF run_at_utc # NoTime /\ run_at_utc > after
         THEN run_at_utc
         ELSE NoTime

\* ------------------------------------------------------------- job store

\* Triggers.  DateTrigger(run_date) fires once; a cron trigger fires at every
\* time t with t % step = phase (the model's "m h * * *").
Date == [step |-> 0, phase |-> 0]
Crons == {[step |-> 2, phase |-> 0], [step |-> 2, phase |-> 1]}

\* CronTrigger.get_next_fire_time: first fire time >= t
cron_ceil(cron, t) ==
    CHOOSE x \in t..(t + cron.step) :
        /\ x % cron.step = cron.phase
        /\ \A y \in t..(x - 1) : y % cron.step # cron.phase

\* a job of the job store; run_time is its next_run_time
Job(jid, trigger, run_time, func) ==
    [id |-> jid, trigger |-> trigger, run_time |-> run_time, func |-> func]

JobsOf(js, jid) == {j \in BagToSet(js) : j.id = jid}

RECURSIVE CountOf(_, _)
CountOf(js, S) ==
    IF S = {} THEN 0
    ELSE LET j == CHOOSE x \in S : TRUE
         IN  CopiesIn(j, js) + CountOf(js, S \ {j})

\* number of jobs registered under a job id
NumJobs(js, jid) == CountOf(js, JobsOf(js, jid))

\* the job store without any job of this id
WithoutJob(js, jid) ==
    LET keep == {j \in BagToSet(js) : j.id # jid}
    IN  [j \in keep |-> js[j]]

\* faulty variant of add_job: the job is added next to the one already there
add_job_dup(js, job) == js (+) SetToBag({job})

\* scheduler.add_job(..., id=jid, replace_existing=True)
add_job(js, job) == WithoutJob(js, job.id) (+) SetToBag({job})

_schedule_single_job(js, reminder_id, run_time_utc, job_func) ==
    add_job(js, Job(reminder_job_id(reminder_id), Date, run_time_utc, job_func))

\* faulty variant of remove_scheduled_job: the job is left in the store
remove_scheduled_job_keep(js, reminder_id) == js

\* scheduler.remove_job raises JobLookupError when absent; swallowed here
remove_scheduled_job(js, reminder_id) ==
    IF JobsOf(js, reminder_job_id(reminder_id)) # {}
    THEN WithoutJob(js, reminder_job_id(reminder_id))
    ELSE js

\* ------------------------------------------------------------- row updates

Exists(rs, id) == id \in DOMAIN rs

\* UPDATE reminders SET status = ... WHERE id = ...   (rowcount > 0)
set_reminder_status(rs, reminder_id, status) ==
    IF Exists(rs, reminder_id)
    THEN [rs EXCEPT ![reminder_id].status = status]
    ELSE rs

\* faulty variant of set_next_run: the UPDATE is lost
set_next_run_lost(rs, reminder_id, next_run_utc) == rs

set_next_run(rs, reminder_id, next_run_utc) ==
    IF Exists(rs, reminder_id)
    THEN [rs EXCEPT ![reminder_id].next_run_utc = next_run_utc]
    ELSE rs

\* the reminder ids a behaviour is about
Known == DOMAIN inflight

Idle == [pc |-> "idle", planned |-> NoTime]

\* the database sessions that can be open side by side
Sessions == {1, 2}

\* a session with no log_delivery_attempt call in progress
IdleCall == [pc |-> "idle", reminder_id |-> 0, planned_utc |-> NoTime,
             attempt_no |-> 0]

Op(op, id, ok) == [op |-> op, id |-> id, ok |-> ok]

\* ------------------------------------------------------------------- Init

Init ==
    /\ app \in {"reminder", "alert", "csv"}
    /\ now = 0
    /\ reminders = << >>
    /\ alerts = << >>
    /\ csv = << >>
    /\ jobs = EmptyBag
    /\ inflight = [id \in {1} |-> Idle]
    /\ ledger = {}
    /\ deliveries = [id \in {1} |-> 0]
    /\ created = {}
    /\ aborted = {}
    /\ last = Op("init", 0, FALSE)
    /\ outcome = "none"
    /\ calls = [c \in Sessions |-> IdleCall]
    /\ returned = 0
    /\ fcall = NoCall
    /\ result = NoResult
    /\ fsm = NoDialogue

\* ---------------------------------------------------------------- actions

Tick ==
    /\ now < MaxTime
    /\ now' = now + 1
    /\ last' = Op("tick", 0, FALSE)
    /\ UNCHANGED <<calls, outcome, app, fsm, fcall, result, returned, alerts, csv, reminders, jobs, inflight, ledger, deliveries,
                   created, aborted>>

\* create_reminder: the id is a fresh uuid4; next_run_utc is pre-computed
create_reminder(rrule_str, run_at_utc, misfire_policy) ==
    LET rid == CHOOSE id \in Known \ created : \A x \in Known \ created : id <= x
        row == [rrule |-> rrule_str,
                run_at_utc |-> run_at_utc,
                next_run_utc |-> compute_next_run(rrule_str, run_at_utc, now),
                misfire_policy |-> misfire_policy,
                status |-> "active"]
    IN  /\ app = "reminder"
        /\ Known \ created # {}
        /\ created' = created \cup {rid}
        /\ reminders' = [id \in DOMAIN reminders \cup {rid} |->
                            IF id = rid THEN row ELSE reminders[id]]
        /\ last' = Op("create", rid, TRUE)
        /\ UNCHANGED <<calls, outcome, app, fsm, fcall, result, returned, alerts, csv, now, jobs, inflight, ledger, deliveries, aborted>>

\* update_reminder: mutable fields; next_run_utc is recomputed only when a
\* schedule field (rrule, run_at_utc) is given.  NoChange stands for None.
update_reminder(reminder_id, rrule_str, run_at_utc, misfire_policy, status) ==
    /\ app = "reminder"
    /\ IF Exists(reminders, reminder_id)
       THEN LET r == reminders[reminder_id]
                r1 == [r EXCEPT
                         !.misfire_policy =
                             IF misfire_policy # "NoChange" THEN misfire_policy ELSE @,
                         !.status = IF status # "NoChange" THEN status ELSE @,
                         !.rrule = IF rrule_str # NoRule THEN rrule_str ELSE @,
                         !.run_at_utc = IF run_at_utc # NoTime THEN run_at_utc ELSE @]
                schedule_changed == rrule_str # NoRule \/ run_at_utc # NoTime
                r2 == IF schedule_changed
                      THEN [r1 EXCEPT !.next_run_utc =
                               compute_next_run(r1.rrule, r1.run_at_utc, now)]
                      ELSE r1
            IN  /\ reminders' = [reminders EXCEPT ![reminder_id] = r2]
                /\ last' = Op("update", reminder_id, TRUE)
       ELSE /\ UNCHANGED <<reminders>>
            /\ last' = Op("update", reminder_id, FALSE)
    /\ UNCHANGED <<calls, outcome, app, fsm, fcall, result, returned, alerts, csv, now, jobs, inflight, ledger, deliveries, created, aborted>>

\* delete_reminder: hard delete; delivery_log rows go by ON DELETE CASCADE
delete_reminder(reminder_id) ==
    /\ app = "reminder"
    /\ reminders' = [id \in DOMAIN reminders \ {reminder_id} |-> reminders[id]]
    /\ ledger' = IF Exists(reminders, reminder_id)
                 THEN {row \in ledger : row.reminder_id # reminder_id}
                 ELSE ledger
    /\ last' = Op("delete", reminder_id, Exists(reminders, reminder_id))
    /\ UNCHANGED <<calls, outcome, app, fsm, fcall, result, returned, alerts, csv, now, jobs, inflight, deliveries, created, aborted>>

\* schedule_new_reminder_job: register the persisted next_run_utc
schedule_new_reminder_job(reminder_id) ==
    /\ app = "reminder"
    /\ IF \/ ~Exists(reminders, reminder_id)
          \/ reminders[reminder_id].status # "active"
          \/ reminders[reminder_id].next_run_utc = NoTime
       THEN /\ jobs' = jobs
            /\ last' = Op("schedule", reminder_id, FALSE)
       ELSE /\ jobs' = _schedule_single_job(jobs, reminder_id,
                           reminders[reminder_id].next_run_utc, "job_func")
            /\ last' = Op("schedule", reminder_id, TRUE)
    /\ UNCHANGED <<calls, outcome, app, fsm, fcall, result, returned, alerts, csv, now, reminders, inflight, ledger, deliveries,
                   created, aborted>>

\* cancel_reminder: status cancelled, job removed, next_run_utc cleared;
\* returns the rowcount test of the status update
cancel_reminder(reminder_id) ==
    /\ app = "reminder"
    /\ LET removed == Exists(reminders, reminder_id)
           rs1 == set_reminder_status(reminders, reminder_id, "cancelled")
       IN  /\ jobs' = remove_scheduled_job(jobs, reminder_id)
           /\ reminders' = set_next_run(rs1, reminder_id, NoTime)
           /\ last' = Op("cancel", reminder_id, removed)
    /\ UNCHANGED <<calls, outcome, app, fsm, fcall, result, returned, alerts, csv, now, inflight, ledger, deliveries, created, aborted>>


\* faulty variant of MaxAttempt: the maximum over all planned instants
MaxAttempt_any(lg, reminder_id, planned_utc) ==
    LET nos == {row.attempt_no : row \in {x \in lg : x.reminder_id = reminder_id}}
    IN  IF nos = {} THEN 0 ELSE CHOOSE n \in nos : \A k \in nos : k <= n

\* log_delivery_attempt: attempt_no = 1 + max(attempt_no) over the rows with
\* the same (reminder_id, planned_utc), 0 when there is none
MaxAttempt(lg, reminder_id, planned_utc) ==
    LET nos == {row.attempt_no : row \in
                   {x \in lg : x.reminder_id = reminder_id /\ x.planned_utc = planned_utc}}
    IN  IF nos = {} THEN 0 ELSE CHOOSE n \in nos : \A m \in nos : m <= n

\* faulty variant of log_delivery_attempt: numbering off by one
log_delivery_attempt_off(lg, reminder_id, planned_utc) ==
    lg \cup {[reminder_id |-> reminder_id,
              planned_utc |-> planned_utc,
              attempt_no |-> MaxAttempt(lg, reminder_id, planned_utc) + 2]}

log_delivery_attempt(lg, reminder_id, planned_utc) ==
    lg \cup {[reminder_id |-> reminder_id,
              planned_utc |-> planned_utc,
              attempt_no |-> MaxAttempt(lg, reminder_id, planned_utc) + 1]}

\* ---- rehydrate_scheduler_from_db

\* SELECT ... WHERE status = active AND next_run_utc IS NOT NULL
\* faulty variant of Candidates: the select does not filter on the status
Candidates_any_status(rs) ==
    {id \in DOMAIN rs : rs[id].next_run_utc # NoTime}

Candidates(rs) ==
    {id \in DOMAIN rs : rs[id].status = "active" /\ rs[id].next_run_utc # NoTime}

\* faulty variant of RehydrateRow: reschedule keeps the row active with its
\* missed next_run_utc and fires as soon as possible when nothing is left
RehydrateRow_reschedule_keeps(r, t) ==
    IF r.next_run_utc <= t
    THEN IF r.misfire_policy = "send"
         THEN [row |-> r, run_time |-> t + AheadSeconds]
         ELSE LET nxt == compute_next_run(r.rrule, r.run_at_utc, t)
                  r1 == [r EXCEPT !.next_run_utc = nxt]
              IN  IF nxt = NoTime
                  THEN IF r.misfire_policy = "skip"
                       THEN [row |-> [r1 EXCEPT !.status = "done"], run_time |-> NoTime]
                       ELSE [row |-> r, run_time |-> t + AheadSeconds]
                  ELSE [row |-> r1, run_time |-> nxt]
    ELSE [row |-> r, run_time |-> r.next_run_utc]

\* the body of the loop for one reminder r at clock reading t:
\* the row as stored afterwards and the run time handed to the scheduler
\* (NoTime when the loop continues without scheduling)
RehydrateRow(r, t) ==
    IF r.next_run_utc <= t
    THEN IF r.misfire_policy = "send"
         THEN [row |-> r, run_time |-> t + AheadSeconds]
         ELSE IF r.misfire_policy = "skip"
         THEN LET nxt == compute_next_run(r.rrule, r.run_at_utc, t)
                  r1 == [r EXCEPT !.next_run_utc = nxt]
              IN  IF nxt = NoTime
                  THEN [row |-> [r1 EXCEPT !.status = "done"], run_time |-> NoTime]
                  ELSE [row |-> r1, run_time |-> nxt]
         ELSE LET nxt == compute_next_run(r.rrule, r.run_at_utc, t)
              IN  IF nxt = NoTime
                  THEN [row |-> [r EXCEPT !.status = "done", !.next_run_utc = NoTime],
                        run_time |-> NoTime]
                  ELSE [row |-> [r EXCEPT !.next_run_utc = nxt], run_time |-> nxt]
    ELSE [row |-> r, run_time |-> r.next_run_utc]

RECURSIVE RehydrateJobs(_, _, _, _)
RehydrateJobs(js, rs, t, todo) ==
    IF todo = {} THEN js
    ELSE LET id == CHOOSE x \in todo : TRUE
             res == RehydrateRow(rs[id], t)
             js1 == IF res.run_time = NoTime THEN js
                    ELSE _schedule_single_job(js, id, res.run_time, "job_func")
         IN  RehydrateJobs(js1, rs, t, todo \ {id})

RehydrateRows(rs, t) ==
    [id \in DOMAIN rs |->
        IF id \in Candidates(rs) THEN RehydrateRow(rs[id], t).row ELSE rs[id]]

\* scheduled: the number of loop rounds that reach _schedule_single_job
RehydrateCount(rs, t) ==
    Cardinality({id \in Candidates(rs) : RehydrateRow(rs[id], t).run_time # NoTime})

\* the loop body raises for r: compute_next_run is reached (overdue, policy
\* skip or reschedule) and _parse_rrule cannot parse the stored rrule
Raises(r, t) ==
    /\ r.next_run_utc <= t
    /\ r.misfire_policy \in {"skip", "reschedule"}
    /\ r.rrule = BadRule

\* a call of rehydrate_scheduler_from_db on the running scheduler.  The rows
\* come in no particular order (no ORDER BY).  When the loop body raises for
\* a row the call ends there: the rows handled before it (any set of rows
\* that do not raise) have their timers, the session is rolled back, nothing
\* is returned.
rehydrate_scheduler_from_db ==
    /\ app = "reminder"
    /\ LET bad == {id \in Candidates(reminders) : Raises(reminders[id], now)}
       IN  IF bad = {}
           THEN /\ reminders' = RehydrateRows(reminders, now)
                /\ jobs' = RehydrateJobs(jobs, reminders, now, Candidates(reminders))
                /\ returned' = RehydrateCount(reminders, now)
                /\ last' = Op("rehydrate", 0, TRUE)
           ELSE \E b \in bad, before \in SUBSET (Candidates(reminders) \ bad) :
                /\ reminders' = reminders
                /\ jobs' = RehydrateJobs(jobs, reminders, now, before)
                /\ returned' = returned
                /\ last' = Op("rehydrate", b, FALSE)
    /\ UNCHANGED <<calls, outcome, app, fsm, fcall, result, alerts, csv, now, inflight, ledger,
                   deliveries, created, aborted>>

\* process restart: the in-memory job store and the running job functions
\* are lost, the tables survive; startup rehydrates
Restart ==
    /\ app = "reminder"
    /\ reminders' = RehydrateRows(reminders, now)
    /\ jobs' = RehydrateJobs(EmptyBag, reminders, now, Candidates(reminders))
    /\ aborted' = aborted \cup {id \in Known : inflight[id].pc # "idle"}
    /\ inflight' = [id \in Known |-> Idle]
    /\ returned' = RehydrateCount(reminders, now)
    /\ last' = Op("restart", 0, TRUE)
    /\ UNCHANGED <<calls, outcome, app, fsm, fcall, result, alerts, csv, now, ledger, deliveries, created>>

\* ---- a timer comes due

\* faulty variant of MaxInstancesReached: no limit on running instances
MaxInstancesUnlimited(id) == FALSE

\* max_instances=1: the executor refuses a job id that has a running instance
MaxInstancesReached(id) == inflight[id].pc # "idle"

\* The scheduler processes a due date job: the run is submitted to the
\* executor (job_func(reminder_id, run_time_utc) starts) unless the job id has
\* a running instance; a DateTrigger has no further fire time, so the job
\* leaves the job store either way.
TimerFire(id) ==
    /\ app = "reminder"
    /\ \E j \in JobsOf(jobs, reminder_job_id(id)) :
          /\ j.run_time <= now
          /\ jobs' = jobs (-) SetToBag({j})
          /\ IF MaxInstancesReached(id) \/ j.func # "job_func"
             THEN /\ UNCHANGED <<inflight, deliveries>>
                  /\ last' = Op("fire", id, FALSE)
             ELSE /\ deliveries[id] < MaxFires
                  /\ deliveries' = [deliveries EXCEPT ![id] = @ + 1]
                  /\ inflight' = [inflight EXCEPT ![id] =
                                     [pc |-> "sent", planned |-> j.run_time]]
                  /\ last' = Op("fire", id, TRUE)
    /\ UNCHANGED <<calls, outcome, app, fsm, fcall, result, returned, alerts, csv, now, reminders, ledger, created, aborted>>

\* the job function records the outcome of the send in the ledger
JobLog(id, ok) ==
    /\ app = "reminder"
    /\ inflight[id].pc = "sent"
    /\ IF Exists(reminders, id)
       THEN /\ ledger' = log_delivery_attempt(ledger, id, inflight[id].planned)
            /\ inflight' = [inflight EXCEPT ![id].pc = "logged"]
       ELSE \* the insert violates the foreign key: the job function raises
            /\ ledger' = ledger
            /\ inflight' = [inflight EXCEPT ![id] = Idle]
    /\ last' = Op("log", id, ok)
    /\ UNCHANGED <<calls, outcome, app, fsm, fcall, result, returned, alerts, csv, now, reminders, jobs, deliveries, created, aborted>>

\* finalize_one_shot_after_send
finalize_one_shot_after_send(rs, js, reminder_id, t) ==
    IF ~Exists(rs, reminder_id)
    THEN [reminders |-> rs, jobs |-> js]
    ELSE LET r == rs[reminder_id]
         IN  IF r.rrule # NoRule
             THEN LET nxt == compute_next_run(r.rrule, r.run_at_utc, t)
                      rs1 == set_next_run(rs, reminder_id, nxt)
                  IN  IF nxt = NoTime
                      THEN [reminders |-> set_reminder_status(rs1, reminder_id, "done"),
                            jobs |-> remove_scheduled_job(js, reminder_id)]
                      ELSE [reminders |-> rs1,
                            jobs |-> _schedule_single_job(js, reminder_id, nxt, "placeholder")]
             ELSE [reminders |-> set_reminder_status(
                                     set_next_run(rs, reminder_id, NoTime),
                                     reminder_id, "done"),
                   jobs |-> remove_scheduled_job(js, reminder_id)]

\* the job function's post-processing, after which the instance ends
JobFinalize(id) ==
    /\ app = "reminder"
    /\ inflight[id].pc = "logged"
    /\ LET res == finalize_one_shot_after_send(reminders, jobs, id, now)
       IN  /\ reminders' = res.reminders
           /\ jobs' = res.jobs
    /\ inflight' = [inflight EXCEPT ![id] = Idle]
    /\ last' = Op("finalize", id, TRUE)
    /\ UNCHANGED <<calls, outcome, app, fsm, fcall, result, returned, alerts, csv, now, ledger, deliveries, created, aborted>>


\* ------------------------------------------- alerts (src/alerts.py, src/db.py)

job_id_for(alert_id) == <<"alert", alert_id>>

\* the cron column: NoCron is NULL, BadCron a text CronTrigger.from_crontab
\* rejects
NoCron == [step |-> 0, phase |-> 0]
BadCron == [step |-> 0, phase |-> 1]

\* cron_trigger raises on a malformed expression
cron_trigger_ok(cron) == cron.step > 0

\* create_alert: a new row, enabled, never run
create_alert(kind, run_at_utc, cron) ==
    [kind |-> kind, run_at_utc |-> run_at_utc, cron |-> cron,
     enabled |-> TRUE, last_run_at |-> NoTime]

\* faulty variant of IsPast: nothing counts as past
IsPast_never(run_at_utc, now_utc) == FALSE

\* alert.run_at_utc <= now_utc
IsPast(run_at_utc, now_utc) == run_at_utc <= now_utc

\* AlertScheduler._add_job_for_alert
_add_job_for_alert(js, alert_id, alert, now_utc) ==
    IF ~alert.enabled THEN js
    ELSE LET js1 == WithoutJob(js, job_id_for(alert_id))
         IN  IF alert.kind = "one"
             THEN IF alert.run_at_utc = NoTime THEN js1
                  ELSE IF IsPast(alert.run_at_utc, now_utc) THEN js1
                  ELSE add_job(js1, Job(job_id_for(alert_id), Date,
                                        alert.run_at_utc, "_run_alert_job"))
             ELSE IF alert.cron = NoCron THEN js1
                  ELSE IF ~cron_trigger_ok(alert.cron) THEN js1
                  ELSE add_job(js1, Job(job_id_for(alert_id), alert.cron,
                                        cron_ceil(alert.cron, now_utc),
                                        "_run_alert_job"))

\* the next autoincrement / uuid4 key
FreshId == CHOOSE id \in Known \ created : \A x \in Known \ created : id <= x

AlertInsert(alert) ==
    /\ created' = created \cup {FreshId}
    /\ alerts' = [id \in DOMAIN alerts \cup {FreshId} |->
                     IF id = FreshId THEN alert ELSE alerts[id]]
    /\ jobs' = _add_job_for_alert(jobs, FreshId, alert, now)
    /\ last' = Op("create", FreshId, TRUE)

\* handlers.time_confirm: a one-shot alert is stored and scheduled
time_confirm(run_at_utc) ==
    /\ app = "alert"
    /\ Known \ created # {}
    /\ AlertInsert(create_alert("one", run_at_utc, NoCron))
    /\ UNCHANGED <<calls, outcome, app, fsm, fcall, result, returned, now, reminders, csv, inflight, ledger, deliveries, aborted>>

\* handlers.step_cron_new: the crontab text is validated before the insert
step_cron_new(cron) ==
    /\ app = "alert"
    /\ Known \ created # {}
    /\ IF cron_trigger_ok(cron)
       THEN AlertInsert(create_alert("cron", NoTime, cron))
       ELSE /\ last' = Op("create", 0, FALSE)
            /\ UNCHANGED <<created, alerts, jobs>>
    /\ UNCHANGED <<calls, outcome, app, fsm, fcall, result, returned, now, reminders, csv, inflight, ledger, deliveries, aborted>>

\* handlers.step_cycle_dt_ai with a text of crontab shape: stored as it is
step_cycle_dt_ai(cron) ==
    /\ app = "alert"
    /\ Known \ created # {}
    /\ AlertInsert(create_alert("cron", NoTime, cron))
    /\ UNCHANGED <<calls, outcome, app, fsm, fcall, result, returned, now, reminders, csv, inflight, ledger, deliveries, aborted>>

\* db.disable_alert(session, alert_id, owner_user_id): get_alert finds the row
\* only when it belongs to owner_user_id; owned says whether it does
disable_alert(as, alert_id, owned) ==
    IF alert_id \in DOMAIN as /\ owned
    THEN [as EXCEPT ![alert_id].enabled = FALSE]
    ELSE as

\* handlers.on_alert_callbacks, action "delete": owned says whether the user
\* who pressed the button owns the alert; ok is what disable_alert returned
on_alert_delete(alert_id, owned) ==
    /\ app = "alert"
    /\ alerts' = disable_alert(alerts, alert_id, owned)
    /\ jobs' = WithoutJob(jobs, job_id_for(alert_id))
    /\ last' = Op("delete", alert_id, alert_id \in DOMAIN alerts /\ owned)
    /\ UNCHANGED <<calls, outcome, app, fsm, fcall, result, returned, now, reminders, csv, inflight, ledger, deliveries,
                   created, aborted>>

RECURSIVE RebuildJobs(_, _, _, _)
RebuildJobs(js, as, t, todo) ==
    IF todo = {} THEN js
    ELSE LET id == CHOOSE x \in todo : TRUE
         IN  RebuildJobs(_add_job_for_alert(js, id, as[id], t), as, t, todo \ {id})

\* AlertScheduler.rebuild_from_db: the alert jobs are cleared and the enabled
\* alerts scheduled again (startup, where the job store is empty anyway)
rebuild_from_db ==
    /\ app = "alert"
    /\ jobs' = RebuildJobs(EmptyBag, alerts, now,
                           {id \in DOMAIN alerts : alerts[id].enabled})
    /\ last' = Op("rebuild", 0, TRUE)
    /\ UNCHANGED <<calls, outcome, app, fsm, fcall, result, returned, now, reminders, alerts, csv, inflight, ledger,
                   deliveries, created, aborted>>

\* record_alert_run: last_run_at; a one-shot alert is disabled
record_alert_run(as, alert_id, t) ==
    [as EXCEPT ![alert_id].last_run_at = t,
               ![alert_id].enabled = IF @ /\ as[alert_id].kind = "one" THEN FALSE ELSE @]

\* the job store once the scheduler has processed the due job j: a date job
\* leaves it, a cron job gets its next fire time after the clock reading
Processed(js, j, t) ==
    IF j.trigger = Date
    THEN js (-) SetToBag({j})
    ELSE (js (-) SetToBag({j}))
             (+) SetToBag({[j EXCEPT !.run_time = cron_ceil(j.trigger, t + 1)]})

\* faulty variant of AlertJobCatches: no handler around the job body
AlertJobCatches_none(exc) == FALSE

\* _run_alert_job wraps its body in try / except Exception
AlertJobCatches(exc) == exc \in {"TransportError"}

\* AlertScheduler._run_alert_job on the job store js1 (the due job already
\* processed); sent says whether _send_alert_content returned or raised.
\* [alerts, jobs, attempted, outcome] afterwards.
_run_alert_job(as, js1, alert_id, sent, t) ==
    IF alert_id \notin DOMAIN as \/ ~as[alert_id].enabled
    THEN [alerts |-> as, jobs |-> js1, attempted |-> FALSE, outcome |-> "none"]
    ELSE IF sent
    THEN [alerts |-> record_alert_run(as, alert_id, t),
          jobs |-> WithoutJob(js1, job_id_for(alert_id)),
          attempted |-> TRUE, outcome |-> "sent"]
    ELSE \* the session rolls back; nothing after the send runs
         [alerts |-> as, jobs |-> js1, attempted |-> TRUE,
          outcome |-> IF AlertJobCatches("TransportError")
                      THEN "failed" ELSE "raised"]

\* a due alert job is processed and runs _run_alert_job
AlertTimerFire(alert_id, sent) ==
    /\ app = "alert"
    /\ \E j \in JobsOf(jobs, job_id_for(alert_id)) :
          /\ j.run_time <= now
          /\ LET res == _run_alert_job(alerts, Processed(jobs, j, now),
                                       alert_id, sent, now)
             IN  /\ res.attempted => deliveries[alert_id] < MaxFires
                 /\ alerts' = res.alerts
                 /\ jobs' = res.jobs
                 /\ outcome' = res.outcome
                 /\ deliveries' = IF res.attempted
                                  THEN [deliveries EXCEPT ![alert_id] = @ + 1]
                                  ELSE deliveries
                 /\ last' = Op("fire", alert_id, res.attempted)
    /\ UNCHANGED <<calls, app, fsm, fcall, result, returned, now, reminders, csv, inflight, ledger, created, aborted>>

\* ---------------------------------------------- CSV alerts (src/tools.py)

\* job ids: alert_id for the date job, alert_id__cron__<i> for the i-th time
csv_job_id(alert_id, suffix) == <<"csv", alert_id, suffix>>
CronSuffix(i) ==
    <<"__cron__0", "__cron__1", "__cron__2", "__cron__3", "__cron__4",
      "__cron__5", "__cron__6", "__cron__7">>[i]

schedule_one_time(js, alert_id, run_at) ==
    add_job(js, Job(csv_job_id(alert_id, ""), Date, run_at, "send_video_back"))

schedule_cron(js, alert_id, cron, suffix, t) ==
    add_job(js, Job(csv_job_id(alert_id, suffix), cron, cron_ceil(cron, t),
                    "send_video_back"))

RECURSIVE schedule_many_cron_times(_, _, _, _, _)
schedule_many_cron_times(js, alert_id, times_hhmm, i, t) ==
    IF i > Len(times_hhmm) THEN js
    ELSE schedule_many_cron_times(
             schedule_cron(js, alert_id, times_hhmm[i], CronSuffix(i), t),
             alert_id, times_hhmm, i + 1, t)

\* the lists of daily times a user can give
TimesLists == {<<c>> : c \in Crons} \cup {<<c, d>> : c \in Crons, d \in Crons}

add_alert_row(df, alert_id, row) ==
    [id \in DOMAIN df \cup {alert_id} |-> IF id = alert_id THEN row ELSE df[id]]

remove_alert(df, alert_id) ==
    [id \in DOMAIN df \ {alert_id} |-> df[id]]

\* finalize_and_save_alert, pending_kind one_time
finalize_one_time(run_at) ==
    /\ app = "csv"
    /\ Known \ created # {}
    /\ created' = created \cup {FreshId}
    /\ csv' = add_alert_row(csv, FreshId,
                  [kind |-> "one_time", send_at |-> run_at, times |-> << >>])
    /\ jobs' = schedule_one_time(jobs, FreshId, run_at)
    /\ last' = Op("create", FreshId, TRUE)
    /\ UNCHANGED <<calls, outcome, app, fsm, fcall, result, returned, now, reminders, alerts, inflight, ledger, deliveries, aborted>>

\* finalize_and_save_alert, pending_kind interval, kind daily
finalize_daily(times) ==
    /\ app = "csv"
    /\ Known \ created # {}
    /\ created' = created \cup {FreshId}
    /\ csv' = add_alert_row(csv, FreshId,
                  [kind |-> "daily", send_at |-> NoTime, times |-> times])
    /\ jobs' = schedule_many_cron_times(jobs, FreshId, times, 1, now)
    /\ last' = Op("create", FreshId, TRUE)
    /\ UNCHANGED <<calls, outcome, app, fsm, fcall, result, returned, now, reminders, alerts, inflight, ledger, deliveries, aborted>>

\* restore_jobs_from_csv: one pass over the rows, [csv, jobs] afterwards
RECURSIVE RestoreRows(_, _, _, _)
RestoreRows(df, js, t, todo) ==
    IF todo = {} THEN [csv |-> df, jobs |-> js]
    ELSE LET id == CHOOSE x \in todo : TRUE
             row == df[id]
         IN  IF row.kind = "one_time"
             THEN IF row.send_at = NoTime
                  THEN RestoreRows(df, js, t, todo \ {id})
                  ELSE IF row.send_at > t
                  THEN RestoreRows(df, schedule_one_time(js, id, row.send_at),
                                   t, todo \ {id})
                  ELSE RestoreRows(remove_alert(df, id), js, t, todo \ {id})
             ELSE IF row.times # << >>
                  THEN RestoreRows(df,
                           schedule_many_cron_times(js, id, row.times, 1, t),
                           t, todo \ {id})
                  ELSE RestoreRows(df, js, t, todo \ {id})

\* process start of the CSV bot: empty job store, then restore_jobs_from_csv
restore_jobs_from_csv ==
    /\ app = "csv"
    /\ LET res == RestoreRows(csv, EmptyBag, now, DOMAIN csv)
       IN  /\ csv' = res.csv
           /\ jobs' = res.jobs
    /\ last' = Op("restore", 0, TRUE)
    /\ UNCHANGED <<calls, outcome, app, fsm, fcall, result, returned, now, reminders, alerts, inflight, ledger, deliveries,
                   created, aborted>>

\* faulty variant of VideoSendCatches: no handler around the send
VideoSendCatches_none(exc) == FALSE

\* send_video_back wraps the send in try / except Exception
VideoSendCatches(exc) == exc \in {"TransportError"}

\* tools.send_video_back; sent says whether bot.send_video returned or
\* raised.  [csv, attempted, outcome] afterwards.
send_video_back(df, alert_id, sent) ==
    IF alert_id \notin DOMAIN df
    THEN [csv |-> df, attempted |-> FALSE, outcome |-> "none"]
    ELSE IF ~sent /\ ~VideoSendCatches("TransportError")
    THEN [csv |-> df, attempted |-> TRUE, outcome |-> "raised"]
    ELSE [csv |-> IF df[alert_id].kind = "one_time"
                  THEN remove_alert(df, alert_id) ELSE df,
          attempted |-> TRUE,
          outcome |-> IF sent THEN "sent" ELSE "failed"]

\* a due CSV job.  These jobs are added without misfire_grace_time: a run
\* found late may be dropped by the scheduler (run = FALSE) or still made.
CsvTimerFire(alert_id, run, sent) ==
    /\ app = "csv"
    /\ \E j \in BagToSet(jobs) :
          /\ j.id[2] = alert_id
          /\ j.run_time <= now
          /\ run \/ j.run_time < now
          /\ jobs' = Processed(jobs, j, now)
          /\ IF run
             THEN LET res == send_video_back(csv, alert_id, sent)
                  IN  /\ res.attempted => deliveries[alert_id] < MaxFires
                      /\ csv' = res.csv
                      /\ outcome' = res.outcome
                      /\ deliveries' = IF res.attempted
                                       THEN [deliveries EXCEPT ![alert_id] = @ + 1]
                                       ELSE deliveries
                      /\ last' = Op("fire", alert_id, res.attempted)
             ELSE /\ UNCHANGED <<csv, deliveries, outcome>>
                  /\ last' = Op("misfire", alert_id, FALSE)
    /\ UNCHANGED <<calls, app, fsm, fcall, result, returned, now, reminders, alerts, inflight, ledger, created, aborted>>

Next ==
    \/ Tick
    \/ \E rule \in Rules \cup {NoRule}, t \in Times, p \in Policies :
           create_reminder(rule, t, p)
    \/ \E id \in Known, st \in {"paused", "active"} :
           update_reminder(id, NoRule, NoTime, "NoChange", st)
    \/ \E id \in Known : delete_reminder(id)
    \/ \E id \in Known : schedule_new_reminder_job(id)
    \/ \E id \in Known : cancel_reminder(id)
    \/ rehydrate_scheduler_from_db
    \/ Restart
    \/ \E id \in Known : TimerFire(id)
    \/ \E id \in Known, ok \in BOOLEAN : JobLog(id, ok)
    \/ \E id \in Known : JobFinalize(id)
    \/ \E t \in Times : time_confirm(t)
    \/ \E cron \in Crons \cup {BadCron} : step_cron_new(cron)
    \/ \E cron \in Crons \cup {BadCron} : step_cycle_dt_ai(cron)
    \/ \E id \in Known, owned \in BOOLEAN : on_alert_delete(id, owned)
    \/ rebuild_from_db
    \/ \E id \in Known, sent \in BOOLEAN : AlertTimerFire(id, sent)
    \/ \E t \in Times : finalize_one_time(t)
    \/ \E times \in TimesLists : finalize_daily(times)
    \/ restore_jobs_from_csv
    \/ \E id \in Known, run \in BOOLEAN, sent \in BOOLEAN :
           CsvTimerFire(id, run, sent)

Spec == Init /\ [][Next]_vars

\* ---- two reminders side by side: registration, rehydration and the fire
\* pipeline only

InitPair ==
    /\ app = "reminder"
    /\ now = 0
    /\ reminders = << >>
    /\ alerts = << >>
    /\ csv = << >>
    /\ jobs = EmptyBag
    /\ inflight = [id \in {1, 2} |-> Idle]
    /\ ledger = {}
    /\ deliveries = [id \in {1, 2} |-> 0]
    /\ created = {}
    /\ aborted = {}
    /\ last = Op("init", 0, FALSE)
    /\ outcome = "none"
    /\ calls = [c \in Sessions |-> IdleCall]
    /\ returned = 0
    /\ fcall = NoCall
    /\ result = NoResult
    /\ fsm = NoDialogue

NextPair ==
    \/ Tick
    \/ \E rule \in {NoRule, [interval |-> 1, count |-> 2]}, t \in Times :
           create_reminder(rule, t, "send")
    \/ \E id \in Known : schedule_new_reminder_job(id)
    \/ rehydrate_scheduler_from_db
    \/ \E id \in Known : TimerFire(id)
    \/ \E id \in Known : JobLog(id, TRUE)
    \/ \E id \in Known : JobFinalize(id)

SpecPair == InitPair /\ [][NextPair]_vars

\* ---- log_delivery_attempt on its own: calls made one after the other and
\* calls of two sessions interleaved

InitLedger ==
    /\ app = "reminder"
    /\ now = 0
    /\ reminders = [id \in {1, 2} |->
                       [rrule |-> NoRule, run_at_utc |-> 1,
                        next_run_utc |-> compute_next_run(NoRule, 1, 0),
                        misfire_policy |-> "send", status |-> "active"]]
    /\ alerts = << >>
    /\ csv = << >>
    /\ jobs = EmptyBag
    /\ inflight = [id \in {1, 2} |-> Idle]
    /\ ledger = {}
    /\ deliveries = [id \in {1, 2} |-> 0]
    /\ created = {1, 2}
    /\ aborted = {}
    /\ last = Op("init", 0, FALSE)
    /\ outcome = "none"
    /\ calls = [c \in Sessions |-> IdleCall]
    /\ returned = 0
    /\ fcall = NoCall
    /\ result = NoResult
    /\ fsm = NoDialogue

\* a whole call of log_delivery_attempt and its commit, nothing in between
LogCall(reminder_id, planned_utc) ==
    /\ Cardinality(ledger) < MaxRows
    /\ ledger' = log_delivery_attempt(ledger, reminder_id, planned_utc)
    /\ last' = Op("log_call", reminder_id, TRUE)
    /\ UNCHANGED <<calls, outcome, app, fsm, fcall, result, returned, now, reminders, alerts, csv, jobs,
                   inflight, deliveries, created, aborted>>

\* the first statement of log_delivery_attempt: select max(attempt_no)
LogRead(c, reminder_id, planned_utc) ==
    /\ calls[c].pc = "idle"
    /\ Cardinality(ledger) < MaxRows
    /\ calls' = [calls EXCEPT ![c] =
                    [pc |-> "read", reminder_id |-> reminder_id,
                     planned_utc |-> planned_utc,
                     attempt_no |-> MaxAttempt(ledger, reminder_id, planned_utc) + 1]]
    /\ last' = Op("log_read", reminder_id, TRUE)
    /\ UNCHANGED <<outcome, app, fsm, fcall, result, returned, now, reminders, alerts, csv, jobs, inflight,
                   ledger, deliveries, created, aborted>>

\* the row of a call
CallRow(call) ==
    [reminder_id |-> call.reminder_id, planned_utc |-> call.planned_utc,
     attempt_no |-> call.attempt_no]

\* session.add(row) and the commit: uq_delivery_unique_attempt refuses a row
\* whose (reminder_id, planned_utc, attempt_no) is stored already
LogInsert(c) ==
    /\ calls[c].pc = "read"
    /\ IF CallRow(calls[c]) \in ledger
       THEN /\ calls' = [calls EXCEPT ![c].pc = "failed"]
            /\ ledger' = ledger
            /\ last' = Op("log_insert", calls[c].reminder_id, FALSE)
       ELSE /\ calls' = [calls EXCEPT ![c].pc = "done"]
            /\ ledger' = ledger \cup {CallRow(calls[c])}
            /\ last' = Op("log_insert", calls[c].reminder_id, TRUE)
    /\ UNCHANGED <<outcome, app, fsm, fcall, result, returned, now, reminders, alerts, csv, jobs, inflight,
                   deliveries, created, aborted>>

\* the session is closed
LogReturn(c) ==
    /\ calls[c].pc \in {"done", "failed"}
    /\ calls' = [calls EXCEPT ![c] = IdleCall]
    /\ last' = Op("log_return", 0, TRUE)
    /\ UNCHANGED <<outcome, app, fsm, fcall, result, returned, now, reminders, alerts, csv, jobs, inflight,
                   ledger, deliveries, created, aborted>>

NextLedger ==
    \/ \E id \in Known, t \in 0..1 : LogCall(id, t)
    \/ \E c \in Sessions, id \in Known, t \in 0..1 : LogRead(c, id, t)
    \/ \E c \in Sessions : LogInsert(c)
    \/ \E c \in Sessions : LogReturn(c)

SpecLedger == InitLedger /\ [][NextLedger]_vars

\* ---- rehydration at process start over a stored table of two reminders

\* the rows a reminders table can hold (run_at_utc = 0): next_run_utc is null
\* or an occurrence of the schedule; an unparsable rrule keeps the
\* next_run_utc the row had
StoredSchedules ==
    {<<NoRule, NoTime>>, <<NoRule, 0>>, <<BadRule, 0>>}
        \cup {<<rule, n>> : rule \in Rules, n \in {NoTime, 0, 1, 2}}

StoredRows ==
    {[rrule |-> s[1], run_at_utc |-> 0, next_run_utc |-> s[2],
      misfire_policy |-> p, status |-> st] :
        s \in {x \in StoredSchedules :
                  x[2] = NoTime \/ x[1] \in {NoRule, BadRule}
                      \/ Occurs(x[1], 0, x[2])},
        p \in Policies,
        st \in {"active", "paused", "done", "cancelled"}}

InitRehydrate ==
    /\ app = "reminder"
    /\ now = 0
    /\ reminders \in [{1, 2} -> StoredRows]
    /\ alerts = << >>
    /\ csv = << >>
    /\ jobs = EmptyBag
    /\ inflight = [id \in {1, 2} |-> Idle]
    /\ ledger = {}
    /\ deliveries = [id \in {1, 2} |-> 0]
    /\ created = {1, 2}
    /\ aborted = {}
    /\ last = Op("init", 0, FALSE)
    /\ outcome = "none"
    /\ calls = [c \in Sessions |-> IdleCall]
    /\ returned = 0
    /\ fcall = NoCall
    /\ result = NoResult
    /\ fsm = NoDialogue

NextRehydrate ==
    \/ Tick
    \/ rehydrate_scheduler_from_db

SpecRehydrate == InitRehydrate /\ [][NextRehydrate]_vars

\* ---- compute_next_run applied to given arguments, its results fed back

ComputeRules ==
    Rules \cup {[interval |-> 1, count |-> 0], [interval |-> 3, count |-> 2]}

\* the argument lists: a one-shot with or without run_at_utc, or a rule
\* with its dtstart
ComputeCalls ==
    {[fn |-> "compute_next_run", rrule_str |-> rule, run_at_utc |-> t,
      after |-> a, round |-> 0] :
        rule \in ComputeRules \cup {NoRule}, t \in Times \cup {NoTime},
        a \in Times}

InitCompute ==
    /\ app = "reminder"
    /\ now = 0
    /\ reminders = << >>
    /\ alerts = << >>
    /\ csv = << >>
    /\ jobs = EmptyBag
    /\ inflight = [id \in {1} |-> Idle]
    /\ ledger = {}
    /\ deliveries = [id \in {1} |-> 0]
    /\ created = {}
    /\ aborted = {}
    /\ last = Op("init", 0, FALSE)
    /\ outcome = "none"
    /\ calls = [c \in Sessions |-> IdleCall]
    /\ returned = 0
    /\ fcall \in {c \in ComputeCalls : c.rrule_str # NoRule => c.run_at_utc # NoTime}
    /\ result = Pending
    /\ fsm = NoDialogue

\* the call is evaluated
ComputeNextRun ==
    /\ fcall.fn = "compute_next_run"
    /\ result = Pending
    /\ result' = Returned(compute_next_run(fcall.rrule_str, fcall.run_at_utc,
                                           fcall.after))
    /\ UNCHANGED <<fcall, app, fsm, now, reminders, alerts, csv, jobs, inflight,
                   ledger, deliveries, created, aborted, last, outcome, calls,
                   returned>>

\* the instant returned becomes the `after` of the next call
FeedBack ==
    /\ fcall.fn = "compute_next_run"
    /\ result.state = "returned"
    /\ result.value # NoTime
    /\ result.value <= 2 * MaxTime
    /\ fcall' = [fcall EXCEPT !.after = result.value, !.round = @ + 1]
    /\ result' = Pending
    /\ UNCHANGED <<app, fsm, now, reminders, alerts, csv, jobs, inflight,
                   ledger, deliveries, created, aborted, last, outcome, calls,
                   returned>>

NextCompute ==
    \/ ComputeNextRun
    \/ FeedBack

SpecCompute == InitCompute /\ [][NextCompute]_vars

\* ------------------------------------ cron synthesis (src/ai_interval.py)

\* Texts are sequences of characters or tokens.  A time text has the digits
\* before the separator, the separator and the digits after it; a cron
\* string has its five fields.

DigitChars == <<"0", "1", "2", "3", "4", "5", "6", "7", "8", "9">>

\* int() of a digit character
DigitValue(c) == (CHOOSE i \in 1..10 : DigitChars[i] = c) - 1

\* int() of one or two digits
IntOf(ds) ==
    IF Len(ds) = 1 THEN DigitValue(ds[1])
    ELSE 10 * DigitValue(ds[1]) + DigitValue(ds[2])

\* faulty variant of Fmt: f"{n:02d}", two digits
Fmt_padded(n) == <<DigitChars[(n \div 10) + 1], DigitChars[(n % 10) + 1]>>

\* f"{n}" of an int below 100: decimal digits, no padding
Fmt(n) ==
    IF n < 10 THEN <<DigitChars[n + 1]>>
    ELSE <<DigitChars[(n \div 10) + 1], DigitChars[(n % 10) + 1]>>

TimeText(hh, sep, mm) == [hh |-> hh, sep |-> sep, mm |-> mm]

\* "09:00", "18:00", "07:00", "7.30", "24:00", "9:5"
TimeTexts ==
    {TimeText(<<"0", "9">>, ":", <<"0", "0">>),
     TimeText(<<"1", "8">>, ":", <<"0", "0">>),
     TimeText(<<"0", "7">>, ":", <<"0", "0">>),
     TimeText(<<"7">>, ".", <<"3", "0">>),
     TimeText(<<"2", "4">>, ":", <<"0", "0">>),
     TimeText(<<"9">>, ":", <<"5">>)}

\* _hhmm_to_pair returns: the text matches (\d{1,2})[:.](\d{2}) and the
\* numbers are an hour and a minute; it raises ValueError otherwise
hhmm_ok(s) ==
    /\ Len(s.hh) \in {1, 2}
    /\ s.sep \in {":", "."}
    /\ Len(s.mm) = 2
    /\ IntOf(s.hh) <= 23
    /\ IntOf(s.mm) <= 59

_hhmm_to_pair(s) == <<IntOf(s.hh), IntOf(s.mm)>>

\* the day names a plan may list; " Sunday" is spelt with a capital and a
\* blank, "someday" is no day name
DayNames == {"mon", "sat", " Sunday", "weekend", "weekdays", "someday"}

\* str(d).strip().lower()
DayKey(d) == IF d = " Sunday" THEN "sunday" ELSE d

\* DOW_NAME_TO_CRON.get(key), split at the commas; << >> for a missing key
DOW_NAME_TO_CRON(key) ==
    CASE key = "mon" -> <<"mon">>
      [] key = "sat" -> <<"sat">>
      [] key = "sunday" -> <<"sun">>
      [] key = "weekend" -> <<"sat", "sun">>
      [] key = "weekdays" -> <<"mon", "tue", "wed", "thu", "fri">>
      [] OTHER -> << >>

RECURSIVE DowTokens(_)
\* out: the mapped tokens of the days in order
DowTokens(days) ==
    IF days = << >> THEN << >>
    ELSE DOW_NAME_TO_CRON(DayKey(Head(days))) \o DowTokens(Tail(days))

\* faulty variant of Uniq: repeated tokens are kept
Uniq_keep(out, seen) == out

RECURSIVE Uniq(_, _)
\* uniq: the first occurrence of every token, in order
Uniq(out, seen) ==
    IF out = << >> THEN << >>
    ELSE IF Head(out) \in seen THEN Uniq(Tail(out), seen)
         ELSE <<Head(out)>> \o Uniq(Tail(out), seen \cup {Head(out)})

RECURSIVE Join(_)
\* ",".join(uniq)
Join(tokens) ==
    IF Len(tokens) <= 1 THEN tokens
    ELSE <<Head(tokens), ",">> \o Join(Tail(tokens))

_dow_csv(days) == Join(Uniq(DowTokens(days), {}))

CronText(minute, hour, dom, month, dow) ==
    [minute |-> minute, hour |-> hour, dom |-> dom, month |-> month, dow |-> dow]

Star == <<"*">>

\* f"{m} {h} * * {dow}"
DailyCron(pair, dow) == CronText(Fmt(pair[2]), Fmt(pair[1]), Star, Star, dow)

\* plan.cron: None, "30 7 * * mon", "99 99 * * *"
NoCronText == CronText(<< >>, << >>, << >>, << >>, << >>)
GoodCronText == CronText(<<"3", "0">>, <<"7">>, Star, Star, <<"mon">>)
BadCronText == CronText(<<"9", "9">>, <<"9", "9">>, Star, Star, Star)

IntervalPlan(kind, times, days_of_week, cron, window_start, window_end, interval_minutes) ==
    [kind |-> kind, times |-> times, days_of_week |-> days_of_week,
     cron |-> cron, window_start |-> window_start, window_end |-> window_end,
     interval_minutes |-> interval_minutes]

RECURSIVE TimesToCrons(_, _)
\* the loop over the times: a cron per time, in order; ValueError raised as
\* soon as _hhmm_to_pair rejects a time
TimesToCrons(times, dow) ==
    IF times = << >> THEN Returned(<< >>)
    ELSE IF ~hhmm_ok(Head(times)) THEN Raised("ValueError")
    ELSE LET rest == TimesToCrons(Tail(times), dow)
         IN  IF rest.state = "raised" THEN rest
             ELSE Returned(<<DailyCron(_hhmm_to_pair(Head(times)), dow)>>
                               \o rest.value)

\* the time a plan of unknown kind falls back to: "09:00"
DefaultTime == TimeText(<<"0", "9">>, ":", <<"0", "0">>)
NoWindow == TimeText(<< >>, "", << >>)

\* faulty variant of DefaultDow: the weekend
DefaultDow_weekend == <<"sat", ",", "sun">>

\* the day-of-week field when no day resolves: "mon,tue,wed,thu,fri"
DefaultDow == <<"mon", ",", "tue", ",", "wed", ",", "thu", ",", "fri">>

plan_to_crons(plan) ==
    IF plan.kind = "cron" /\ plan.cron # NoCronText
    THEN Returned(<<plan.cron>>)
    ELSE IF plan.kind = "daily"
    THEN (TimesToCrons(plan.times, Star))
    ELSE IF plan.kind = "weekly"
    THEN LET dow == _dow_csv(plan.days_of_week)
         IN  (TimesToCrons(plan.times,
                 IF dow = << >> THEN DefaultDow ELSE dow))
    ELSE IF plan.kind = "window_interval"
    THEN IF \/ plan.window_start = NoWindow
            \/ plan.window_end = NoWindow
            \/ plan.interval_minutes = 0
         THEN Raised("ValueError")
         ELSE IF ~hhmm_ok(plan.window_start) \/ ~hhmm_ok(plan.window_end)
         THEN Raised("ValueError")
         ELSE LET sh == _hhmm_to_pair(plan.window_start)[1]
                  eh == _hhmm_to_pair(plan.window_end)[1]
                  dow == _dow_csv(plan.days_of_week)
              IN  Returned(<<CronText(<<"*", "/">> \o Fmt(plan.interval_minutes),
                                      Fmt(sh) \o <<"-">> \o Fmt(eh),
                                      Star, Star,
                                      IF dow = << >> THEN Star ELSE dow)>>)
    ELSE IF plan.kind = "one_time"
    THEN (TimesToCrons(plan.times, Star))
    ELSE (TimesToCrons(
             IF plan.times = << >> THEN <<DefaultTime>> ELSE plan.times, Star))

\* the plans _normalize_plan hands over: lists of at most MaxLen times and
\* days for the kinds that read them, the window fields for window_interval
MaxLen == 2

RECURSIVE SeqsUpTo(_, _)
SeqsUpTo(S, n) ==
    IF n = 0 THEN {<< >>}
    ELSE LET shorter == SeqsUpTo(S, n - 1)
         IN  shorter \cup {Append(s, x) : s \in shorter, x \in S}

Plans ==
    {IntervalPlan(kind, times, days, NoCronText, NoWindow, NoWindow, 0) :
        kind \in {"daily", "weekly", "one_time", "cron", "monthly"},
        times \in SeqsUpTo(TimeTexts, MaxLen),
        days \in {<< >>}}
      \cup
    {IntervalPlan("weekly", times, days, NoCronText, NoWindow, NoWindow, 0) :
        times \in SeqsUpTo(TimeTexts, MaxLen),
        days \in SeqsUpTo(DayNames, MaxLen)}
      \cup
    {IntervalPlan("cron", times, << >>, cron, NoWindow, NoWindow, 0) :
        times \in SeqsUpTo(TimeTexts, 1),
        cron \in {GoodCronText, BadCronText}}
      \cup
    {IntervalPlan("window_interval", << >>, days, NoCronText, ws, we, step) :
        days \in {<< >>, <<"weekend">>},
        ws \in {NoWindow, TimeText(<<"0", "9">>, ":", <<"0", "0">>),
                TimeText(<<"1", "8">>, ":", <<"0", "0">>)},
        we \in {NoWindow, TimeText(<<"0", "9">>, ":", <<"0", "0">>),
                TimeText(<<"2", "4">>, ":", <<"0", "0">>)},
        step \in {0, 15, 90}}

InitPlan ==
    /\ app = "alert"
    /\ now = 0
    /\ reminders = << >>
    /\ alerts = << >>
    /\ csv = << >>
    /\ jobs = EmptyBag
    /\ inflight = [id \in {1} |-> Idle]
    /\ ledger = {}
    /\ deliveries = [id \in {1} |-> 0]
    /\ created = {}
    /\ aborted = {}
    /\ last = Op("init", 0, FALSE)
    /\ outcome = "none"
    /\ calls = [c \in Sessions |-> IdleCall]
    /\ returned = 0
    /\ fcall \in {[fn |-> "plan_to_crons", plan |-> plan] : plan \in Plans}
    /\ result = Pending
    /\ fsm = NoDialogue

\* ai_parse_interval_phrase: crons = plan_to_crons(plan)
PlanToCrons ==
    /\ fcall.fn = "plan_to_crons"
    /\ result = Pending
    /\ result' = plan_to_crons(fcall.plan)
    /\ UNCHANGED <<fcall, app, fsm, now, reminders, alerts, csv, jobs, inflight,
                   ledger, deliveries, created, aborted, last, outcome, calls,
                   returned>>

NextPlan == PlanToCrons

SpecPlan == InitPlan /\ [][NextPlan]_vars

\* ----------------------- one-time parsing (src/timeparse.py, src/time_parse.py)

\* Local instants are counted in minutes; At(d, h, m) is hour h, minute m of
\* day d.  datetime.now() has seconds, a built instant has none, so a built
\* instant in the minute of `now` is not after it: minutes compare as the
\* datetimes do.
At(d, h, m) == (d * 24 + h) * 60 + m
HourOf(t) == (t \div 60) % 24
Midnight(t) == At(t \div (24 * 60), 0, 0)
Days(n) == At(n, 0, 0)

\* The texts: an optional day word, an optional "в", an hour, an optional
\* minute after a separator, an optional period word; the words are
\* transliterated.  They carry no calendar date and no weekday name.
HumanText(day, prefix, hour, minute, period) ==
    [day |-> day, prefix |-> prefix, hour |-> hour, minute |-> minute,
     period |-> period]

HumanTexts ==
    {HumanText(day, prefix, hour, minute, period) :
        day \in {"", "segodnya", "zavtra", "poslezavtra"},
        prefix \in BOOLEAN,
        hour \in {0, 7, 12, 19, 24},
        minute \in {NoTime, 0, 30},
        period \in {"", "utra", "dnya", "vechera", "nochi"}}

\* token in word: "zavtra" is part of "poslezavtra"
Contains(word, token) ==
    word = token \/ (word = "poslezavtra" /\ token = "zavtra")

\* word.replace(token, "")
Without(word, token) ==
    IF word = token THEN ""
    ELSE IF word = "poslezavtra" /\ token = "zavtra" THEN "posle"
    ELSE word

\* one round of the loop over (token, shift)
ShiftStep(acc, token, shift) ==
    IF Contains(acc.word, token)
    THEN [shift |-> IF shift > acc.shift THEN shift ELSE acc.shift,
          word |-> Without(acc.word, token)]
    ELSE acc

\* day_shift and what is left of the day word: the loop over
\* ("послезавтра", 2), ("завтра", 1), ("сегодня", 0)
DayShift(word) ==
    ShiftStep(ShiftStep(ShiftStep([shift |-> 0, word |-> word],
                                  "poslezavtra", 2), "zavtra", 1), "segodnya", 0)

in_range(h, m) == 0 <= h /\ h <= 23 /\ 0 <= m /\ m <= 59

apply_period(h, period, now_) ==
    IF period = ""
    THEN IF HourOf(now_) >= 12 /\ 1 <= h /\ h <= 11 THEN (h % 12) + 12 ELSE h
    ELSE IF period \in {"dnya", "vechera"}
    THEN IF h = 12 THEN 12 ELSE (h % 12) + 12
    ELSE IF h = 12 THEN 0 ELSE h % 24

\* build_dt with matched_explicit_hm set, as at every call
build_dt(h, m, period, now_, day_shift) ==
    LET dt == Midnight(now_) + At(0, apply_period(h, period, now_), m)
                  + Days(day_shift)
    IN  IF day_shift = 0 /\ dt <= now_ THEN dt + Days(1) ELSE dt

\* run_at after patterns (1) to (4) and the dateparser fallback, whose answer
\* for the raw text is parsed.  With a minute the text matches pattern (1),
\* without one pattern (2) or (4); a day word left in the text or a number
\* out of range leaves it to dateparser.
ParsedRunAt(text, now_, parsed) ==
    LET ds == DayShift(text.day)
        minute == IF text.minute = NoTime THEN 0 ELSE text.minute
    IN  IF ds.word = "" /\ in_range(text.hour, minute)
        THEN build_dt(text.hour, minute, text.period, now_, ds.shift)
        ELSE parsed

\* time_parse._extract_date on a text with day word `word`
_extract_date(word, now_) ==
    IF Contains(word, "segodnya") THEN Midnight(now_)
    ELSE IF Contains(word, "zavtra") THEN Midnight(now_ + Days(1))
    ELSE IF Contains(word, "poslezavtra") THEN Midnight(now_ + Days(2))
    ELSE NoTime

\* the clock readings: morning, afternoon, evening
Nows == {At(0, 7, 0), At(0, 12, 30), At(0, 20, 0)}

\* what dateparser may answer: nothing, an instant before, at or after now
Parsed(now_) == {NoTime, now_ - 60, now_, now_ + Days(1)}

ParseCalls ==
    {[fn |-> "handle_time_parse_and_confirm", text |-> text, now |-> t,
      parsed |-> NoTime] : text \in HumanTexts, t \in Nows}
      \cup
    UNION {{[fn |-> "handle_time_parse_and_confirm", text |-> text, now |-> t,
             parsed |-> d] :
               text \in {x \in HumanTexts : x.hour = 24 /\ x.period = ""},
               d \in Parsed(t)} : t \in Nows}
      \cup
    {[fn |-> "_extract_date", text |-> text, now |-> t, parsed |-> NoTime] :
        text \in {x \in HumanTexts : x.hour = 7 /\ x.period = ""}, t \in Nows}

InitParse ==
    /\ app = "csv"
    /\ now = 0
    /\ reminders = << >>
    /\ alerts = << >>
    /\ csv = << >>
    /\ jobs = EmptyBag
    /\ inflight = [id \in {1} |-> Idle]
    /\ ledger = {}
    /\ deliveries = [id \in {1} |-> 0]
    /\ created = {}
    /\ aborted = {}
    /\ last = Op("init", 0, FALSE)
    /\ outcome = "none"
    /\ calls = [c \in Sessions |-> IdleCall]
    /\ returned = 0
    /\ fcall \in ParseCalls
    /\ result = Pending
    /\ fsm \in {Dialogue("", [NoData EXCEPT !.expected = "await_time"]),
                Dialogue("", [NoData EXCEPT !.expected = "await_time",
                                            !.pending_kind = "interval"])}

\* faulty variant of NotAfterNow: only a missing run_at is refused
NotAfterNow_missing(run_at, now_) == run_at = NoTime

\* not run_at or run_at <= now
NotAfterNow(run_at, now_) == run_at = NoTime \/ run_at <= now_

\* handle_time_parse_and_confirm: the message text is parsed at clock
\* reading fcall.now; a later instant is stored for confirmation, anything
\* else is answered with time_error
handle_time_parse_and_confirm ==
    /\ fcall.fn = "handle_time_parse_and_confirm"
    /\ result = Pending
    /\ LET run_at == ParsedRunAt(fcall.text, fcall.now, fcall.parsed)
       IN  IF NotAfterNow(run_at, fcall.now)
           THEN /\ fsm' = [fsm EXCEPT !.reply = "time_error"]
                /\ result' = Returned(NoTime)
           ELSE /\ fsm' = [fsm EXCEPT !.data.pending_kind = "one_time",
                                      !.data.pending_run_at = run_at,
                                      !.data.expected = "await_time_confirm",
                                      !.reply = "confirm_prompt"]
                /\ result' = Returned(run_at)
    /\ UNCHANGED <<fcall, app, now, reminders, alerts, csv, jobs, inflight,
                   ledger, deliveries, created, aborted, last, outcome, calls,
                   returned>>

\* parse_human_datetime: date_only = _extract_date(text, now, lang)
ExtractDate ==
    /\ fcall.fn = "_extract_date"
    /\ result = Pending
    /\ result' = Returned(_extract_date(fcall.text.day, fcall.now))
    /\ UNCHANGED <<fcall, fsm, app, now, reminders, alerts, csv, jobs, inflight,
                   ledger, deliveries, created, aborted, last, outcome, calls,
                   returned>>

NextParse ==
    \/ handle_time_parse_and_confirm
    \/ ExtractDate

SpecParse == InitParse /\ [][NextParse]_vars

\* ------------------------------- AI translation (src/tools.py, lines 277-334)

\* What the model call and the JSON library do with one request:
\*   request  "raises" or "ok" (chat.completions.create)
\*   content  "none", "empty" or "text" (message.content)
\*   payload  whether _extract_json_payload finds one
\*   loads, unquoted, block  what json.loads makes of the payload, of the
\*     payload without its quotes and of its balanced {...} block: "dict",
\*     "other" (a value that is no dict) or "error"
\*   quoted   the payload starts and ends with a double quote
\*   differs  there is a balanced block and it is not the whole payload
Parses == {"dict", "other", "error"}

Answers ==
    [request : {"raises", "ok"}, content : {"none", "empty", "text"},
     payload : BOOLEAN, loads : Parses, quoted : BOOLEAN, unquoted : Parses,
     differs : BOOLEAN, block : Parses]

\* faulty variant of parse_interval_with_ai: whatever json.loads gives for the
\* payload is returned
parse_interval_with_ai_any(a) ==
    IF a.request = "raises" THEN Returned("None")
    ELSE IF a.content # "text" \/ ~a.payload THEN Returned("None")
    ELSE IF a.loads # "error" THEN Returned(a.loads)
    ELSE IF a.quoted /\ a.unquoted = "dict" THEN Returned("dict")
    ELSE IF a.differs /\ a.block = "dict" THEN Returned("dict")
    ELSE Returned("None")

\* parse_interval_with_ai: "dict" for the parsed object, "None" otherwise
parse_interval_with_ai(a) ==
    IF a.request = "raises" THEN Returned("None")
    ELSE IF a.content # "text" \/ ~a.payload THEN Returned("None")
    ELSE IF a.loads = "dict" THEN Returned("dict")
    ELSE IF a.loads = "other" THEN Returned("None")
    ELSE IF a.quoted /\ a.unquoted = "dict" THEN Returned("dict")
    ELSE IF a.differs /\ a.block = "dict" THEN Returned("dict")
    ELSE Returned("None")

InitAi ==
    /\ app = "csv"
    /\ now = 0
    /\ reminders = << >>
    /\ alerts = << >>
    /\ csv = << >>
    /\ jobs = EmptyBag
    /\ inflight = [id \in {1} |-> Idle]
    /\ ledger = {}
    /\ deliveries = [id \in {1} |-> 0]
    /\ created = {}
    /\ aborted = {}
    /\ last = Op("init", 0, FALSE)
    /\ outcome = "none"
    /\ calls = [c \in Sessions |-> IdleCall]
    /\ returned = 0
    /\ fcall \in {[fn |-> "parse_interval_with_ai", answer |-> a] : a \in Answers}
    /\ result = Pending
    /\ fsm = NoDialogue

\* parsed = await parse_interval_with_ai(msg.text, ai_client)
ParseIntervalWithAi ==
    /\ fcall.fn = "parse_interval_with_ai"
    /\ result = Pending
    /\ result' = parse_interval_with_ai(fcall.answer)
    /\ UNCHANGED <<fcall, fsm, app, now, reminders, alerts, csv, jobs, inflight,
                   ledger, deliveries, created, aborted, last, outcome, calls,
                   returned>>

NextAi == ParseIntervalWithAi

SpecAi == InitAi /\ [][NextAi]_vars

\* --------------------------------- payment guard (src/fsm.py, lines 82-145)

Waiting == "PaymentFlow:waiting"
WaitingAny == "AnyInput:waiting_any"

\* an update reaching the middleware: its type, whether it carries
\* successful_payment, and whether bot.delete_message raises for it
Events ==
    [kind : {"Message", "CallbackQuery"}, successful_payment : BOOLEAN,
     delete_raises : BOOLEAN]

\* cancel_waiting_payment(state, bot, delete_invoice=True)
cancel_waiting_payment(d, e) ==
    [d EXCEPT !.state = "", !.data = NoData,
              !.deletes = IF d.data.invoice_chat_id # 0 /\ d.data.invoice_message_id # 0
                          THEN @ + 1 ELSE @]

\* the dialogue as the wrapped handler finds it
Guarded(d, e) ==
    IF e.kind = "Message" /\ d.state = Waiting /\ ~e.successful_payment
    THEN cancel_waiting_payment(d, e)
    ELSE d

\* faulty variant of PaymentGuardCall: the handler runs first, the wait is
\* cancelled afterwards
PaymentGuardCall_late(d, e) ==
    [dialogue |-> [Guarded(d, e) EXCEPT !.handled = @ + 1], seen |-> d.state]

\* PaymentGuard.__call__: the dialogue afterwards and the FSM state the wrapped
\* handler saw when it ran
PaymentGuardCall(d, e) ==
    [dialogue |-> [Guarded(d, e) EXCEPT !.handled = @ + 1],
     seen |-> Guarded(d, e).state]

InitGuard ==
    /\ app = "csv"
    /\ now = 0
    /\ reminders = << >>
    /\ alerts = << >>
    /\ csv = << >>
    /\ jobs = EmptyBag
    /\ inflight = [id \in {1} |-> Idle]
    /\ ledger = {}
    /\ deliveries = [id \in {1} |-> 0]
    /\ created = {}
    /\ aborted = {}
    /\ last = Op("init", 0, FALSE)
    /\ outcome = "none"
    /\ calls = [c \in Sessions |-> IdleCall]
    /\ returned = 0
    /\ fcall = NoCall
    /\ result = NoResult
    /\ fsm = NoDialogue

\* set_waiting_payment(state, chat_id=..., message_id=..., ...)
set_waiting_payment ==
    /\ \E chat_id \in {0, 1}, message_id \in {0, 1, 2} :
          fsm' = [fsm EXCEPT !.state = Waiting,
                             !.data.invoice_chat_id = chat_id,
                             !.data.invoice_message_id = message_id]
    /\ fcall' = [fn |-> "set_waiting_payment"]
    /\ result' = NoResult
    /\ UNCHANGED <<app, now, reminders, alerts, csv, jobs, inflight, ledger,
                   deliveries, created, aborted, last, outcome, calls, returned>>

\* expect_any(state)
expect_any ==
    /\ fsm' = [fsm EXCEPT !.state = WaitingAny]
    /\ fcall' = [fn |-> "expect_any"]
    /\ result' = NoResult
    /\ UNCHANGED <<app, now, reminders, alerts, csv, jobs, inflight, ledger,
                   deliveries, created, aborted, last, outcome, calls, returned>>

\* one update passes the middleware and its handler
PaymentGuard ==
    /\ fsm.handled <= MaxLen
    /\ \E e \in Events :
          /\ fsm' = PaymentGuardCall(fsm, e).dialogue
          /\ fcall' = [fn |-> "PaymentGuard", event |-> e]
          /\ result' = Returned(PaymentGuardCall(fsm, e).seen)
    /\ UNCHANGED <<app, now, reminders, alerts, csv, jobs, inflight, ledger,
                   deliveries, created, aborted, last, outcome, calls, returned>>

NextGuard == set_waiting_payment \/ expect_any \/ PaymentGuard

SpecGuard == InitGuard /\ [][NextGuard]_vars

\* ------------------------------ daily window (src/tools.py, lines 103-137)

\* datetime.strptime(s, "%H:%M"): minutes after 1900-01-01 00:00
strptime_HM(s) == 60 * IntOf(s.hh) + IntOf(s.mm)

\* cur.strftime("%H:%M") of a datetime cur minutes after 1900-01-01 00:00
strftime_HM(cur) ==
    LET h == (cur \div 60) % 24
        mi == cur % 60
    IN  TimeText(<<DigitChars[(h \div 10) + 1], DigitChars[(h % 10) + 1]>>, ":",
                 <<DigitChars[(mi \div 10) + 1], DigitChars[(mi % 10) + 1]>>)

\* faulty variant of WindowTimes: while cur < t1
RECURSIVE WindowTimes_before(_, _, _)
WindowTimes_before(cur, t1, step_minutes) ==
    IF cur < t1
    THEN <<strftime_HM(cur)>> \o WindowTimes_before(cur + step_minutes, t1, step_minutes)
    ELSE << >>

\* while cur <= t1: out.append(cur.strftime("%H:%M")); cur += timedelta(...)
RECURSIVE WindowTimes(_, _, _)
WindowTimes(cur, t1, step_minutes) ==
    IF cur <= t1
    THEN <<strftime_HM(cur)>> \o WindowTimes(cur + step_minutes, t1, step_minutes)
    ELSE << >>

compute_times_in_window(window_start, window_end, step_minutes) ==
    WindowTimes(strptime_HM(window_start), strptime_HM(window_end), step_minutes)

\* CronTrigger(hour=h, minute=m) on a clock of minutes
HourMinute(t) == [step |-> 24 * 60, phase |-> 60 * IntOf(t.hh) + IntOf(t.mm)]

\* schedule_window_daily; h, m = map(int, t.split(":")) of
\* schedule_many_cron_times is done here
schedule_window_daily(js, alert_id, window_start, window_end, step_minutes, t) ==
    LET times == compute_times_in_window(window_start, window_end, step_minutes)
    IN  schedule_many_cron_times(
            js, alert_id, [i \in 1..Len(times) |-> HourMinute(times[i])], 1, t)

\* windows "09:00"-"10:00", "9:00"-"11:00", "10:15"-"11:00", "11:00"-"09:00",
\* "22:00"-"23:59", "23:30"-"23:59", "09:00"-"09:00", "00:00"-"01:30"
Windows ==
    {<<TimeText(<<"0", "9">>, ":", <<"0", "0">>), TimeText(<<"1", "0">>, ":", <<"0", "0">>)>>,
     <<TimeText(<<"9">>, ":", <<"0", "0">>), TimeText(<<"1", "1">>, ":", <<"0", "0">>)>>,
     <<TimeText(<<"1", "0">>, ":", <<"1", "5">>), TimeText(<<"1", "1">>, ":", <<"0", "0">>)>>,
     <<TimeText(<<"1", "1">>, ":", <<"0", "0">>), TimeText(<<"0", "9">>, ":", <<"0", "0">>)>>,
     <<TimeText(<<"2", "2">>, ":", <<"0", "0">>), TimeText(<<"2", "3">>, ":", <<"5", "9">>)>>,
     <<TimeText(<<"2", "3">>, ":", <<"3", "0">>), TimeText(<<"2", "3">>, ":", <<"5", "9">>)>>,
     <<TimeText(<<"0", "9">>, ":", <<"0", "0">>), TimeText(<<"0", "9">>, ":", <<"0", "0">>)>>,
     <<TimeText(<<"0", "0">>, ":", <<"0", "0">>), TimeText(<<"0", "1">>, ":", <<"3", "0">>)>>}

\* interval_minutes of a window plan
Steps == {20, 30, 45, 60, 24 * 60}

InitWindow ==
    /\ app = "csv"
    /\ now = 0
    /\ reminders = << >>
    /\ alerts = << >>
    /\ csv = << >>
    /\ jobs = EmptyBag
    /\ inflight = [id \in {1} |-> Idle]
    /\ ledger = {}
    /\ deliveries = [id \in {1} |-> 0]
    /\ created = {}
    /\ aborted = {}
    /\ last = Op("init", 0, FALSE)
    /\ outcome = "none"
    /\ calls = [c \in Sessions |-> IdleCall]
    /\ returned = 0
    /\ fcall \in {[fn |-> "schedule_window_daily", alert_id |-> id,
                   window_start |-> w[1], window_end |-> w[2], step_minutes |-> s] :
                      id \in {1, 2}, w \in Windows, s \in Steps}
    /\ result = Pending
    /\ fsm = NoDialogue

\* finalize_and_save_alert, kind window_interval: the times of the window
\* and their jobs
ScheduleWindowDaily ==
    /\ fcall.fn = "schedule_window_daily"
    /\ result = Pending
    /\ result' = Returned(compute_times_in_window(
                     fcall.window_start, fcall.window_end, fcall.step_minutes))
    /\ jobs' = schedule_window_daily(jobs, fcall.alert_id, fcall.window_start,
                                     fcall.window_end, fcall.step_minutes, now)
    /\ UNCHANGED <<fcall, fsm, app, now, reminders, alerts, csv, inflight,
                   ledger, deliveries, created, aborted, last, outcome, calls,
                   returned>>

NextWindow == ScheduleWindowDaily

SpecWindow == InitWindow /\ [][NextWindow]_vars

\* ------------------------------------------------------------------ claims

Row(id) == reminders[id]
Registered(js, id) == NumJobs(js, reminder_job_id(id))
Rehydrated == last.op \in {"rehydrate", "restart"}
LedgerOf(id) == {row \in ledger : row.reminder_id = id}

\* C1: a one-shot reminder none of whose fires was cut short by a restart has
\* had its delivery callback invoked at most once, whatever rehydrations,
\* registrations, cancellations and fires happened.
C1_OneShotDeliveredAtMostOnce ==
    \A id \in DOMAIN reminders :
        (Row(id).rrule = NoRule /\ id \notin aborted) => deliveries[id] <= 1

\* a one-shot fired through a rehydrated overdue timer (planned after
\* run_at_utc), finalised, and rehydrated again afterwards
C1_Witness ==
    \E id \in DOMAIN reminders :
        /\ Row(id).rrule = NoRule
        /\ id \notin aborted
        /\ deliveries[id] = 1
        /\ Row(id).status = "done"
        /\ inflight[id].pc = "idle"
        /\ Rehydrated
        /\ \E row \in LedgerOf(id) : row.planned_utc > Row(id).run_at_utc

\* C2: send-immediately misfire of a one-shot.  Rehydration of an active
\* overdue one-shot with policy send leaves exactly one timer, due
\* AheadSeconds after the clock reading; the delivery callback is invoked at
\* most once; and once its fire has completed the ledger holds exactly one
\* row for the reminder, numbered 1.
C2_SendMisfireOnce ==
    [][\A id \in DOMAIN reminders :
          (Row(id).rrule = NoRule /\ Row(id).misfire_policy = "send") =>
             /\ ( /\ last'.op \in {"rehydrate", "restart"}
                  /\ Row(id).status = "active"
                  /\ Row(id).next_run_utc # NoTime
                  /\ Row(id).next_run_utc <= now )
                => /\ JobsOf(jobs', reminder_job_id(id)) =
                        {Job(reminder_job_id(id), Date, now + AheadSeconds, "job_func")}
                   /\ NumJobs(jobs', reminder_job_id(id)) = 1
             /\ id \notin aborted' => deliveries'[id] <= 1
             /\ ( /\ id \in DOMAIN reminders'
                  /\ id \notin aborted'
                  /\ deliveries'[id] = 1
                  /\ inflight'[id].pc = "idle" )
                => /\ Cardinality({row \in ledger' : row.reminder_id = id}) = 1
                   /\ \A row \in ledger' : row.reminder_id = id => row.attempt_no = 1
      ]_vars

\* the fire of a send-misfire timer (planned after run_at_utc) has completed
C2_Witness ==
    \E id \in DOMAIN reminders :
        /\ Row(id).rrule = NoRule
        /\ Row(id).misfire_policy = "send"
        /\ id \notin aborted
        /\ last = Op("finalize", id, TRUE)
        /\ Row(id).status = "done"
        /\ deliveries[id] = 1
        /\ \E row \in LedgerOf(id) :
              row.planned_utc > Row(id).run_at_utc /\ row.attempt_no = 1

\* C3: when cancel_reminder completed while a fire was in flight, the fire's
\* post-processing leaves status cancelled, next_run_utc null and no timer.
C3_CancelDuringFire ==
    [][\A id \in DOMAIN reminders :
          (last' = Op("finalize", id, TRUE) /\ Row(id).status = "cancelled") =>
             /\ reminders'[id].status = "cancelled"
             /\ reminders'[id].next_run_utc = NoTime
             /\ Registered(jobs', id) = 0
      ]_vars

\* C4: when rehydration has returned, every reminder that is active with a
\* next_run_utc has it stored strictly after the clock reading.
C4_RehydratePersistsFuture ==
    Rehydrated =>
        \A id \in DOMAIN reminders :
            (Row(id).status = "active" /\ Row(id).next_run_utc # NoTime)
                => Row(id).next_run_utc > now

\* C7: cancel_reminder on an existing reminder leaves it cancelled, with
\* next_run_utc null and no timer under its job id, with or without a timer
\* registered beforehand.
C7_CancelPostcondition ==
    [][\A id \in DOMAIN reminders :
          last' = Op("cancel", id, TRUE) =>
             /\ reminders'[id].status = "cancelled"
             /\ reminders'[id].next_run_utc = NoTime
             /\ Registered(jobs', id) = 0
      ]_vars

\* a cancel that found no timer: the date job had left the store when it
\* fired, and the fire is still in flight
C7_Witness ==
    \E id \in DOMAIN reminders :
        /\ last = Op("cancel", id, TRUE)
        /\ Row(id).status = "cancelled"
        /\ inflight[id].pc = "sent"

\* C8: cancel_reminder returns true exactly when it cancels an existing
\* reminder that was not in a terminal status, and false otherwise.
C8_CancelReturn ==
    [][\A id \in Known :
          (last'.op = "cancel" /\ last'.id = id) =>
             (last'.ok <=> (Exists(reminders, id) /\ Row(id).status \notin Terminal))
      ]_vars

\* C9: no lifecycle operation changes the status of a reminder that is done
\* or cancelled, or registers a timer for it.
C9_TerminalAbsorbing ==
    [][\A id \in DOMAIN reminders \cap DOMAIN reminders' :
          ( /\ Row(id).status \in Terminal
            /\ last'.op \in {"cancel", "finalize", "log", "fire",
                             "rehydrate", "restart", "schedule"} )
          => /\ reminders'[id].status = Row(id).status
             /\ JobsOf(jobs', reminder_job_id(id)) \subseteq
                    JobsOf(jobs, reminder_job_id(id))
      ]_vars

\* the jobs a step put into the job store: all of them after a process start
\* (the store was empty), the new ones otherwise
RegisteredBy(js, js1, op) ==
    IF op \in {"restart", "restore", "rebuild"}
    THEN BagToSet(js1)
    ELSE BagToSet(js1) \ BagToSet(js)

\* C5: rehydration of an active overdue reminder with policy skip either
\* stores a next_run_utc strictly after the clock reading and leaves exactly
\* the timer for that instant, or stores null with status done and registers
\* no timer; and no date timer registered by rehydration, CSV restore or the
\* alert rebuild has a run time at or before the clock reading.
C5_SkipMisfire ==
    [][ /\ \A id \in DOMAIN reminders :
             ( /\ last'.op \in {"rehydrate", "restart"}
               /\ Row(id).status = "active"
               /\ Row(id).misfire_policy = "skip"
               /\ Row(id).next_run_utc # NoTime
               /\ Row(id).next_run_utc <= now )
             => \/ /\ reminders'[id].next_run_utc > now
                   /\ reminders'[id].status = "active"
                   /\ JobsOf(jobs', reminder_job_id(id)) =
                        {Job(reminder_job_id(id), Date,
                             reminders'[id].next_run_utc, "job_func")}
                   /\ Registered(jobs', id) = 1
                \/ /\ reminders'[id].next_run_utc = NoTime
                   /\ reminders'[id].status = "done"
                   /\ RegisteredBy(jobs, jobs', last'.op) = {}
        /\ last'.op \in {"rehydrate", "restart", "restore", "rebuild"}
             => \A j \in RegisteredBy(jobs, jobs', last'.op) :
                    j.trigger = Date => j.run_time > now
      ]_vars

\* an overdue recurring reminder with policy skip was moved on by a restart:
\* never fired, its next_run_utc is past its first occurrence and in the
\* future, and its timer is registered there
C5_Witness ==
    \E id \in DOMAIN reminders :
        /\ last.op = "restart"
        /\ Row(id).misfire_policy = "skip"
        /\ Row(id).rrule # NoRule
        /\ Row(id).status = "active"
        /\ deliveries[id] = 0
        /\ Row(id).next_run_utc > Row(id).run_at_utc + 1
        /\ Row(id).next_run_utc > now
        /\ JobsOf(jobs, reminder_job_id(id)) =
               {Job(reminder_job_id(id), Date, Row(id).next_run_utc, "job_func")}

\* C6: every registration for a reminder id (schedule_new_reminder_job,
\* rehydration, the re-registration after a fire) leaves exactly one timer
\* under reminder:<id>, with the run time of that registration, and leaves
\* the timers of the other ids as they were.
C6_RegistrationIdempotent ==
    [][\A id \in Known :
          LET jid == reminder_job_id(id)
              run_times == {j.run_time : j \in JobsOf(jobs', jid)}
          IN  /\ NumJobs(jobs', jid) <= 1
              /\ last' = Op("schedule", id, TRUE)
                   => /\ NumJobs(jobs', jid) = 1
                      /\ run_times = {Row(id).next_run_utc}
              /\ ( /\ last'.op = "rehydrate"
                   /\ id \in DOMAIN reminders
                   /\ Row(id).status = "active"
                   /\ Row(id).next_run_utc # NoTime
                   /\ reminders'[id].status = "active" )
                   => /\ NumJobs(jobs', jid) = 1
                      /\ run_times = {IF Row(id).next_run_utc <= now
                                         /\ Row(id).misfire_policy = "send"
                                      THEN now + AheadSeconds
                                      ELSE reminders'[id].next_run_utc}
              /\ ( /\ last' = Op("finalize", id, TRUE)
                   /\ id \in DOMAIN reminders
                   /\ Row(id).rrule # NoRule
                   /\ reminders'[id].next_run_utc # NoTime )
                   => /\ NumJobs(jobs', jid) = 1
                      /\ run_times = {reminders'[id].next_run_utc}
              /\ ( /\ last'.op \in {"schedule", "finalize"}
                   /\ last'.id # id )
                   => /\ JobsOf(jobs', jid) = JobsOf(jobs, jid)
                      /\ NumJobs(jobs', jid) = NumJobs(jobs, jid)
              /\ ( /\ last'.op = "rehydrate"
                   /\ id \in DOMAIN reminders
                   /\ id \notin Candidates(reminders) )
                   => JobsOf(jobs', jid) = JobsOf(jobs, jid)
      ]_vars

\* reminder 1 has fired once and been re-registered by the post-processing;
\* schedule_new_reminder_job then replaced that timer, while reminder 2 kept
\* its own timer at another instant
C6_Witness ==
    /\ DOMAIN reminders = {1, 2}
    /\ last = Op("schedule", 1, TRUE)
    /\ reminders[1].rrule # NoRule
    /\ deliveries[1] = 1
    /\ inflight[1].pc = "idle"
    /\ reminders[1].next_run_utc > now
    /\ JobsOf(jobs, reminder_job_id(1)) =
           {Job(reminder_job_id(1), Date, reminders[1].next_run_utc, "job_func")}
    /\ NumJobs(jobs, reminder_job_id(1)) = 1
    /\ NumJobs(jobs, reminder_job_id(2)) = 1
    /\ \A j \in JobsOf(jobs, reminder_job_id(2)) :
           j.run_time # reminders[1].next_run_utc

CsvJobsOf(js, alert_id) == {j \in BagToSet(js) : j.id[2] = alert_id}

C12_RecurringAfterFire ==
    [][\A id \in DOMAIN reminders :
          ( /\ last' = Op("finalize", id, TRUE)
            /\ Row(id).rrule # NoRule
            /\ Row(id).status = "active" )
          => LET occ == OccurrencesAfter(Row(id).rrule, Row(id).run_at_utc, now)
             IN  IF occ # {}
                 THEN /\ reminders'[id].next_run_utc \in occ
                      /\ \A x \in occ : reminders'[id].next_run_utc <= x
                      /\ reminders'[id].status = "active"
                      /\ Registered(jobs', id) = 1
                      /\ \A j \in JobsOf(jobs', reminder_job_id(id)) :
                             j.run_time = reminders'[id].next_run_utc
                 ELSE /\ reminders'[id].next_run_utc = NoTime
                      /\ reminders'[id].status = "done"
                      /\ Registered(jobs', id) = 0
      ]_vars

\* the fire of a recurring reminder has just been post-processed and its
\* next occurrence is stored and registered
C12_Witness ==
    \E id \in DOMAIN reminders :
        /\ last = Op("finalize", id, TRUE)
        /\ Row(id).rrule # NoRule
        /\ Row(id).status = "active"
        /\ deliveries[id] >= 1
        /\ Row(id).next_run_utc > now
        /\ Registered(jobs, id) = 1
        /\ \A j \in JobsOf(jobs, reminder_job_id(id)) :
               j.run_time = Row(id).next_run_utc

\* C13: after a firing of an enabled cron alert (of a daily CSV alert), the
\* send having succeeded or failed, its job is still in the job store.
C13_RecurringKeepsJob ==
    [][\A id \in Known :
          /\ ( /\ app = "alert"
               /\ last' = Op("fire", id, TRUE)
               /\ alerts[id].kind = "cron" )
             => JobsOf(jobs', job_id_for(id)) # {}
          /\ ( /\ app = "csv"
               /\ last' = Op("fire", id, TRUE)
               /\ csv[id].kind = "daily" )
             => /\ CsvJobsOf(jobs', id) # {}
                /\ Cardinality(CsvJobsOf(jobs', id)) = Cardinality(CsvJobsOf(jobs, id))
      ]_vars

\* C14: a one-shot whose delivery raised is not delivered again.  The step
\* in which the send of a one-shot alert or of a CSV one-time alert raises
\* leaves no job for it; and from then on it has no job (also after a
\* rebuild_from_db or restore_jobs_from_csv) and its delivery count stays 1.
C14_FailedOneShotNotRetried ==
    /\ [][\A id \in Known :
             ( /\ last' = Op("fire", id, TRUE)
               /\ outcome' = "failed" )
             => /\ (app = "alert" /\ alerts[id].kind = "one")
                      => JobsOf(jobs', job_id_for(id)) = {}
                /\ (app = "csv" /\ csv[id].kind = "one_time")
                      => /\ CsvJobsOf(jobs', id) = {}
                         /\ id \notin DOMAIN csv'
         ]_vars
    /\ [](\A id \in Known :
            /\ ( /\ id \in DOMAIN alerts
                 /\ alerts[id].kind = "one"
                 /\ deliveries[id] >= 1
                 /\ alerts[id].last_run_at = NoTime )
               => /\ deliveries[id] = 1
                  /\ JobsOf(jobs, job_id_for(id)) = {}
            /\ ( /\ app = "csv"
                 /\ id \in created
                 /\ id \notin DOMAIN csv )
               => /\ deliveries[id] <= 1
                  /\ CsvJobsOf(jobs, id) = {})

\* the send of a one-shot alert raised, and a later rebuild_from_db found the
\* alert still enabled and registered nothing
C14_Witness ==
    \E id \in DOMAIN alerts :
        /\ alerts[id].kind = "one"
        /\ alerts[id].enabled
        /\ alerts[id].last_run_at = NoTime
        /\ outcome = "failed"
        /\ deliveries[id] = 1
        /\ last.op = "rebuild"
        /\ jobs = EmptyBag

\* C15: no run of an alert or CSV job function ends with an exception of the
\* delivery transport escaping it: every run returns, the send having
\* succeeded or raised.
C15_NoEscape == outcome \in {"none", "sent", "failed"}

\* the send of a cron alert raised and the job function returned
C15_Witness ==
    \E id \in DOMAIN alerts :
        /\ alerts[id].kind = "cron"
        /\ last = Op("fire", id, TRUE)
        /\ outcome = "failed"

\* the ledger rows of one (reminder_id, planned_utc)
KeyRows(lg, reminder_id, planned_utc) ==
    {x \in lg : x.reminder_id = reminder_id /\ x.planned_utc = planned_utc}

\* C16: a call of log_delivery_attempt adds exactly one row, numbered 1 when
\* the ledger has no row for its (reminder_id, planned_utc) and one more than
\* the largest number stored for that key otherwise, whatever rows other
\* reminders and other planned instants have; so the numbers of a key are
\* 1, 2, 3, ... without gaps.
C16_AttemptNumbering ==
    /\ [][last'.op = "log_call" =>
             /\ ledger \subseteq ledger'
             /\ Cardinality(ledger' \ ledger) = 1
             /\ \A new \in ledger' \ ledger :
                   LET old == KeyRows(ledger, new.reminder_id, new.planned_utc)
                   IN  /\ new.reminder_id = last'.id
                       /\ old = {} => new.attempt_no = 1
                       /\ old # {} =>
                            /\ \E x \in old : new.attempt_no = x.attempt_no + 1
                            /\ \A x \in old : new.attempt_no > x.attempt_no
         ]_vars
    /\ [](\A row \in ledger :
             LET nos == {x.attempt_no :
                            x \in KeyRows(ledger, row.reminder_id, row.planned_utc)}
             IN  nos = 1..Cardinality(nos))

\* three calls for one key and one call for another planned instant of the
\* same reminder
C16_Witness ==
    /\ last = Op("log_call", 1, TRUE)
    /\ {x.attempt_no : x \in KeyRows(ledger, 1, 0)} = {1, 2, 3}
    /\ {x.attempt_no : x \in KeyRows(ledger, 1, 1)} = {1}
    /\ \A c \in Sessions : calls[c].pc = "idle"

\* C17: two log_delivery_attempt calls of two sessions for one
\* (reminder_id, planned_utc), interleaved in any order, both succeed, and
\* their rows carry different numbers.
C17_ConcurrentAttempts ==
    /\ \A c \in Sessions : calls[c].pc # "failed"
    /\ \A c, d \in Sessions :
          ( /\ c # d
            /\ calls[c].pc = "done"
            /\ calls[d].pc = "done"
            /\ calls[c].reminder_id = calls[d].reminder_id
            /\ calls[c].planned_utc = calls[d].planned_utc )
          => calls[c].attempt_no # calls[d].attempt_no

\* the step is a call of rehydrate_scheduler_from_db (ended or cut short)
RehydrateStep == now' = now /\ last'.op = "rehydrate"

\* C18: a rehydration during which the processing of one reminder raises
\* still registers the timer of every other active reminder that has a next
\* occurrence.
C18_ErrorIsolated ==
    [][RehydrateStep =>
        \A id \in Candidates(reminders) :
            (/\ ~Raises(Row(id), now)
             /\ RehydrateRow(Row(id), now).run_time # NoTime)
                => Registered(jobs', id) >= 1]_vars

\* the jobs of reminder id are the same before and after the step
SameJobs(id) ==
    \A j \in BagToSet(jobs) \cup BagToSet(jobs') :
        j.id = reminder_job_id(id) => CopiesIn(j, jobs') = CopiesIn(j, jobs)

\* C19: a rehydration neither registers a timer for nor changes the stored
\* row of a reminder that is not active or has a null next_run_utc, and the
\* value it returns is the number of timers it registered: the reminders it
\* selected that are still active and hold a timer afterwards, which from an
\* empty job store is the number of jobs in the store.
C19_ExactlyCandidates ==
    [][RehydrateStep =>
        /\ \A id \in DOMAIN reminders :
               (Row(id).status # "active" \/ Row(id).next_run_utc = NoTime)
                   => reminders'[id] = Row(id) /\ SameJobs(id)
        /\ last'.ok =>
               /\ returned' = Cardinality(
                      {id \in DOMAIN reminders :
                          /\ Row(id).status = "active"
                          /\ Row(id).next_run_utc # NoTime
                          /\ reminders'[id].status = "active"
                          /\ Registered(jobs', id) = 1})
               /\ jobs = EmptyBag => returned' = BagCardinality(jobs')]_vars

\* a rehydration returned 1 with a timer for one reminder while the other, a
\* paused one with a stored next_run_utc, has none
C19_Witness ==
    /\ last = Op("rehydrate", 0, TRUE)
    /\ returned = 1
    /\ BagCardinality(jobs) = 1
    /\ \E id \in DOMAIN reminders :
           /\ Row(id).status = "paused"
           /\ Row(id).next_run_utc # NoTime
           /\ Registered(jobs, id) = 0

\* C20: after a rehydration that ran to its end, a second run at the same
\* clock reading raises for no reminder, registers the same timers with the
\* same run times and stores the same status and next_run_utc for every
\* reminder: it leaves the job store and the table as the first run left them.
C20_RehydrateIdempotent ==
    [][(RehydrateStep /\ last'.ok) =>
        /\ \A id \in Candidates(reminders') : ~Raises(reminders'[id], now)
        /\ RehydrateRows(reminders', now) = reminders'
        /\ RehydrateJobs(jobs', reminders', now, Candidates(reminders')) = jobs'
        /\ RehydrateCount(reminders', now) = returned']_vars

\* a rehydration gave an overdue reminder with policy send its timer one
\* AheadSeconds after the clock reading and moved the other, overdue with
\* policy skip or reschedule, to a later occurrence
C20_Witness ==
    /\ last = Op("rehydrate", 0, TRUE)
    /\ returned = 2
    /\ \E id \in DOMAIN reminders, other \in DOMAIN reminders :
           /\ Row(id).misfire_policy = "send"
           /\ Row(id).next_run_utc <= now
           /\ \E j \in JobsOf(jobs, reminder_job_id(id)) :
                  j.run_time = now + AheadSeconds
           /\ Row(other).misfire_policy # "send"
           /\ Row(other).run_at_utc < now
           /\ Row(other).next_run_utc > now
           /\ \E j \in JobsOf(jobs, reminder_job_id(other)) :
                  j.run_time = Row(other).next_run_utc

\* the run times of the timers of reminder id in job store js
RunTimes(js, id) == {j.run_time : j \in JobsOf(js, reminder_job_id(id))}

\* reminders a and b differ in nothing but the misfire policy, skip for a and
\* reschedule for b, and hold the same timers
SkipRescheduleTwins(a, b) ==
    /\ Row(a).misfire_policy = "skip"
    /\ Row(b) = [Row(a) EXCEPT !.misfire_policy = "reschedule"]
    /\ RunTimes(jobs, a) = RunTimes(jobs, b)
    /\ Registered(jobs, a) = Registered(jobs, b)

\* C21: a rehydration treats two reminders that differ only in the misfire
\* policy, skip against reschedule, alike: afterwards both have the same
\* stored status, the same stored next_run_utc and the same timer or none.
C21_SkipEqualsReschedule ==
    [][(RehydrateStep /\ last'.ok) =>
        \A a \in DOMAIN reminders, b \in DOMAIN reminders :
            SkipRescheduleTwins(a, b) =>
                /\ reminders'[a].status = reminders'[b].status
                /\ reminders'[a].next_run_utc = reminders'[b].next_run_utc
                /\ RunTimes(jobs', a) = RunTimes(jobs', b)
                /\ Registered(jobs', a) = Registered(jobs', b)]_vars

\* a rehydration finished an overdue one-shot twin pair (done, no
\* next_run_utc, no timer)
C21_Witness ==
    /\ last = Op("rehydrate", 0, TRUE)
    /\ \E a \in DOMAIN reminders, b \in DOMAIN reminders :
           /\ Row(a).misfire_policy = "skip"
           /\ Row(b).misfire_policy = "reschedule"
           /\ Row(a).rrule = NoRule /\ Row(b).rrule = NoRule
           /\ Row(a).status = "done" /\ Row(b).status = "done"
           /\ Row(a).next_run_utc = NoTime /\ Row(b).next_run_utc = NoTime
           /\ Registered(jobs, a) = 0 /\ Registered(jobs, b) = 0

\* C22: for a one-shot schedule compute_next_run returns run_at_utc exactly
\* when run_at_utc is given and strictly after `after`, and None when it
\* equals or precedes `after` or is absent.
C22_OneShotNextRun ==
    (/\ fcall.fn = "compute_next_run"
     /\ fcall.rrule_str = NoRule
     /\ result.state = "returned")
        => /\ (fcall.run_at_utc # NoTime /\ fcall.run_at_utc > fcall.after)
                  => result.value = fcall.run_at_utc
           /\ (fcall.run_at_utc = NoTime \/ fcall.run_at_utc <= fcall.after)
                  => result.value = NoTime

\* a one-shot call whose run_at_utc equals `after` returned None
C22_Witness ==
    /\ fcall.fn = "compute_next_run"
    /\ fcall.rrule_str = NoRule
    /\ fcall.run_at_utc = fcall.after
    /\ result = Returned(NoTime)

\* C23: for a recurring schedule every call of compute_next_run, those fed
\* with the previous result included, returns the first occurrence of the
\* rule strictly after its `after`, or None when there is none: the fed-back
\* results increase strictly, none is returned twice, none is skipped.
C23_StrictlyIncreasing ==
    [][(/\ fcall.fn = "compute_next_run"
        /\ fcall.rrule_str # NoRule
        /\ result = Pending
    /\ fsm = NoDialogue
        /\ result'.state = "returned") =>
        LET v == result'.value
            rule == fcall.rrule_str
            dtstart == fcall.run_at_utc
        IN  /\ v # NoTime =>
                   /\ v > fcall.after
                   /\ Occurs(rule, dtstart, v)
                   /\ \A x \in (fcall.after + 1)..(v - 1) : ~Occurs(rule, dtstart, x)
            /\ v = NoTime => OccurrencesAfter(rule, dtstart, fcall.after) = {}]_vars

\* the third call of a chain returned an occurrence after the one fed in
C23_Witness ==
    /\ fcall.fn = "compute_next_run"
    /\ fcall.rrule_str # NoRule
    /\ fcall.round = 2
    /\ result.state = "returned"
    /\ result.value > fcall.after
    /\ Occurs(fcall.rrule_str, fcall.run_at_utc, fcall.after)

\* C24: no creation step stores an alert whose cron expression does not
\* parse, and a creation with such an expression is reported as failed and
\* registers no job.
C24_BadCronCreatesNothing ==
    [][app = "alert" =>
        /\ \A id \in DOMAIN alerts' \ DOMAIN alerts :
               alerts'[id].kind = "cron" => cron_trigger_ok(alerts'[id].cron)
        /\ (last'.op = "create" /\ ~last'.ok) => alerts' = alerts /\ jobs' = jobs]_vars

\* C25: a reminder created as a one-shot whose instant is at or before the
\* clock reading is stored with a null next_run_utc and gets no timer, then
\* or from schedule_new_reminder_job, which registers a timer and returns
\* true exactly when the reminder exists, is active and has a non-null
\* next_run_utc, and otherwise leaves the job store as it is.
C25_NoTimerWithoutOccurrence ==
    [][app = "reminder" =>
        /\ \A id \in DOMAIN reminders' \ DOMAIN reminders :
               (reminders'[id].rrule = NoRule /\ reminders'[id].run_at_utc <= now)
                   => /\ reminders'[id].next_run_utc = NoTime
                      /\ Registered(jobs', id) = 0
        /\ \A id \in Known :
               /\ last' = Op("schedule", id, TRUE) =>
                      /\ id \in DOMAIN reminders
                      /\ Row(id).status = "active"
                      /\ Row(id).next_run_utc # NoTime
                      /\ RunTimes(jobs', id) = {Row(id).next_run_utc}
                      /\ Registered(jobs', id) = 1
               /\ last' = Op("schedule", id, FALSE) =>
                      /\ \/ id \notin DOMAIN reminders
                         \/ Row(id).status # "active"
                         \/ Row(id).next_run_utc = NoTime
                      /\ jobs' = jobs]_vars

\* schedule_new_reminder_job returned false for an active one-shot that was
\* created past its instant and has never had a timer or a fire
C25_Witness ==
    \E id \in DOMAIN reminders :
        /\ last = Op("schedule", id, FALSE)
        /\ Row(id).rrule = NoRule
        /\ Row(id).run_at_utc <= now
        /\ Row(id).status = "active"
        /\ Row(id).next_run_utc = NoTime
        /\ Registered(jobs, id) = 0
        /\ deliveries[id] = 0

\* the plan of the call and the crons it returned
PlanOf == fcall.plan
CronsOf == result.value
PlanReturned(kind) ==
    /\ fcall.fn = "plan_to_crons"
    /\ PlanOf.kind = kind
    /\ result.state = "returned"

\* the tokens of a comma-joined field: its odd positions
FieldTokens(field) == [i \in 1..((Len(field) + 1) \div 2) |-> field[2 * i - 1]]

\* field is a comma-joined list: a comma at every even position, none at an
\* odd one, and no comma at the end
CommaJoined(field) ==
    /\ Len(field) % 2 = 1
    /\ \A i \in 1..Len(field) : (field[i] = ",") <=> (i % 2 = 0)

\* position of the first occurrence of token x in sequence s
FirstAt(s, x) == CHOOSE i \in 1..Len(s) : s[i] = x /\ \A j \in 1..(i - 1) : s[j] # x

\* field lists the tokens of expansion e once each, in the order of their
\* first occurrence in e
CanonicalDays(field, e) ==
    /\ CommaJoined(field)
    /\ LET T == FieldTokens(field)
       IN  /\ {T[i] : i \in 1..Len(T)} = {e[i] : i \in 1..Len(e)}
           /\ \A i \in 1..Len(T), j \in 1..Len(T) :
                  i < j => T[i] # T[j] /\ FirstAt(e, T[i]) < FirstAt(e, T[j])

\* crons has one cron per time, in order: 'minute hour * * dow', the numbers
\* of the time unpadded
OnePerTime(crons, times, dow) ==
    /\ Len(crons) = Len(times)
    /\ \A i \in 1..Len(times) :
           crons[i] = CronText(Fmt(IntOf(times[i].mm)), Fmt(IntOf(times[i].hh)),
                               Star, Star, dow)

\* C26: for kind weekly with a day that resolves, the crons returned are one
\* per time, 'minute hour * * D', D the comma-joined canonical tokens of the
\* days, unknown names dropped, each token once, in first-occurrence order;
\* days ['weekend'], times ['07:00'] give exactly ['0 7 * * sat,sun'].
C26_WeeklyCrons ==
    (PlanReturned("weekly") /\ DowTokens(PlanOf.days_of_week) # << >>)
        => /\ \E dow \in {c.dow : c \in {CronsOf[i] : i \in 1..Len(CronsOf)}}
                         \cup {_dow_csv(PlanOf.days_of_week)} :
                  /\ CanonicalDays(dow, DowTokens(PlanOf.days_of_week))
                  /\ OnePerTime(CronsOf, PlanOf.times, dow)
           /\ (/\ PlanOf.days_of_week = <<"weekend">>
               /\ PlanOf.times = <<TimeText(<<"0", "7">>, ":", <<"0", "0">>)>>)
                  => CronsOf = <<CronText(<<"0">>, <<"7">>, Star, Star,
                                          <<"sat", ",", "sun">>)>>

\* days ['sat', 'weekend'] and time ['07:00'] gave ['0 7 * * sat,sun']
C26_Witness ==
    /\ PlanReturned("weekly")
    /\ PlanOf.days_of_week = <<"sat", "weekend">>
    /\ PlanOf.times = <<TimeText(<<"0", "7">>, ":", <<"0", "0">>)>>
    /\ CronsOf = <<CronText(<<"0">>, <<"7">>, Star, Star, <<"sat", ",", "sun">>)>>

\* the weekday tokens in the order of the week
WeekOrder == <<"mon", "tue", "wed", "thu", "fri", "sat", "sun">>
DayIndex(token) == CHOOSE i \in 1..7 : WeekOrder[i] = token

\* the weekdays a day-of-week field denotes to the cron trigger: those of a
\* range 'a-b', or those listed between the commas
DaysDenoted(field) ==
    IF Len(field) = 3 /\ field[2] = "-"
    THEN {WeekOrder[i] : i \in DayIndex(field[1])..DayIndex(field[3])}
    ELSE {FieldTokens(field)[i] : i \in 1..Len(FieldTokens(field))}

\* a weekly plan none of whose days resolves, or whose only day is the word
\* weekdays, and the crons returned for it
WeekdaysCase ==
    /\ PlanReturned("weekly")
    /\ \/ DowTokens(PlanOf.days_of_week) = << >>
       \/ PlanOf.days_of_week = <<"weekdays">>

\* C27 as stated: in that case the day-of-week field of every cron returned
\* is the text mon-fri.
C27_MonFriText ==
    WeekdaysCase =>
        \A i \in 1..Len(CronsOf) : CronsOf[i].dow = <<"mon", "-", "fri">>

\* C27, amended: in that case the day-of-week field of every cron returned
\* is the list mon,tue,wed,thu,fri, which denotes the weekdays the range
\* mon-fri denotes.
C27_WeekdaysList ==
    WeekdaysCase =>
        \A i \in 1..Len(CronsOf) :
            /\ CronsOf[i].dow = <<"mon", ",", "tue", ",", "wed", ",", "thu", ",", "fri">>
            /\ CommaJoined(CronsOf[i].dow)
            /\ DaysDenoted(CronsOf[i].dow) = DaysDenoted(<<"mon", "-", "fri">>)

\* a weekly plan whose only day is no day name returned a cron for 09:00
C27_Witness ==
    /\ WeekdaysCase
    /\ PlanOf.days_of_week = <<"someday">>
    /\ PlanOf.times = <<DefaultTime>>
    /\ Len(CronsOf) = 1
    /\ CronsOf[1].hour = <<"9">>

\* a number text without a leading zero
Unpadded(field) == Len(field) = 2 => field[1] # "0"

\* C28: for kind daily the crons returned are one per time, in list order,
\* 'minute hour * * *' with the numbers of the time unpadded; times
\* ['09:00', '18:00'] give ['0 9 * * *', '0 18 * * *'].
C28_DailyCrons ==
    PlanReturned("daily") =>
        /\ Len(CronsOf) = Len(PlanOf.times)
        /\ \A i \in 1..Len(CronsOf) :
               /\ IntOf(CronsOf[i].minute) = IntOf(PlanOf.times[i].mm)
               /\ IntOf(CronsOf[i].hour) = IntOf(PlanOf.times[i].hh)
               /\ Unpadded(CronsOf[i].minute) /\ Unpadded(CronsOf[i].hour)
               /\ CronsOf[i].dom = Star /\ CronsOf[i].month = Star
               /\ CronsOf[i].dow = Star
        /\ PlanOf.times = <<TimeText(<<"0", "9">>, ":", <<"0", "0">>),
                            TimeText(<<"1", "8">>, ":", <<"0", "0">>)>>
               => CronsOf = <<CronText(<<"0">>, <<"9">>, Star, Star, Star),
                              CronText(<<"0">>, <<"1", "8">>, Star, Star, Star)>>

\* times ['18:00', '7.30'] gave ['0 18 * * *', '30 7 * * *']
C28_Witness ==
    /\ PlanReturned("daily")
    /\ PlanOf.times = <<TimeText(<<"1", "8">>, ":", <<"0", "0">>),
                        TimeText(<<"7">>, ".", <<"3", "0">>)>>
    /\ CronsOf = <<CronText(<<"0">>, <<"1", "8">>, Star, Star, Star),
                   CronText(<<"3", "0">>, <<"7">>, Star, Star, Star)>>

\* C29: for kind one_time the call returns the empty cron list, whatever
\* times the plan lists.
C29_OneTimeEmpty ==
    (fcall.fn = "plan_to_crons" /\ PlanOf.kind = "one_time" /\ result # Pending)
        => result = Returned(<< >>)

\* a one- or two-digit number text of value at most top
NumberUpTo(field, top) ==
    /\ Len(field) \in {1, 2}
    /\ \A i \in 1..Len(field) : \E d \in 1..10 : DigitChars[d] = field[i]
    /\ IntOf(field) <= top

\* CronTrigger.from_crontab accepts the expression: every field is '*', a
\* number, range or step within the field's bounds, or weekday names
from_crontab_ok(c) ==
    /\ \/ c.minute = Star
       \/ NumberUpTo(c.minute, 59)
       \/ /\ Len(c.minute) \in {3, 4}
          /\ SubSeq(c.minute, 1, 2) = <<"*", "/">>
          /\ NumberUpTo(SubSeq(c.minute, 3, Len(c.minute)), 59)
          /\ IntOf(SubSeq(c.minute, 3, Len(c.minute))) >= 1
    /\ \/ c.hour = Star
       \/ NumberUpTo(c.hour, 23)
       \/ \E k \in 2..3 :
              /\ Len(c.hour) > k
              /\ c.hour[k] = "-"
              /\ NumberUpTo(SubSeq(c.hour, 1, k - 1), 23)
              /\ NumberUpTo(SubSeq(c.hour, k + 1, Len(c.hour)), 23)
              /\ IntOf(SubSeq(c.hour, 1, k - 1))
                     <= IntOf(SubSeq(c.hour, k + 1, Len(c.hour)))
    /\ c.dom = Star
    /\ c.month = Star
    /\ \/ c.dow = Star
       \/ /\ CommaJoined(c.dow)
          /\ \A i \in 1..Len(FieldTokens(c.dow)) :
                 \E d \in 1..7 : WeekOrder[d] = FieldTokens(c.dow)[i]

\* C30: every cron string the call returns is one CronTrigger.from_crontab
\* accepts, and a plan of kind cron whose expression is malformed or missing
\* ends in an error, not in a returned list.
C30_ReturnedCronsValid ==
    (fcall.fn = "plan_to_crons" /\ result # Pending) =>
        /\ result.state = "returned" =>
               \A i \in 1..Len(CronsOf) : from_crontab_ok(CronsOf[i])
        /\ (PlanOf.kind = "cron" /\ ~from_crontab_ok(PlanOf.cron))
               => result.state = "raised"

\* the text, the clock reading and the outcome of a handled time message
Handled ==
    /\ fcall.fn = "handle_time_parse_and_confirm"
    /\ result.state = "returned"

\* C31: a text 'tomorrow at H' with 1 <= H <= 11 and no period word is
\* resolved to hour H of the day after `now`, whatever the hour of `now`;
\* at 20:00 'завтра в 7' gives 07:00 of the next day.
C31_TomorrowOverridesBias ==
    (/\ Handled
     /\ fcall.text.day = "zavtra"
     /\ fcall.text.period = ""
     /\ fcall.text.hour \in 1..11)
        => result.value = Midnight(fcall.now) + Days(1)
                              + At(0, fcall.text.hour,
                                   IF fcall.text.minute = NoTime THEN 0
                                   ELSE fcall.text.minute)

\* C32: the date extractor resolves today to the midnight of the day of
\* `now`, tomorrow to the midnight one day later and day-after-tomorrow to the
\* midnight two days later.
C32_RelativeDayOffsets ==
    (fcall.fn = "_extract_date" /\ result.state = "returned") =>
        /\ fcall.text.day = "segodnya" => result.value = Midnight(fcall.now)
        /\ fcall.text.day = "zavtra" => result.value = Midnight(fcall.now) + Days(1)
        /\ fcall.text.day = "poslezavtra"
               => result.value = Midnight(fcall.now) + Days(2)

\* C39: the one-time parsing step either stores a run time strictly after
\* the `now` it sampled, with pending_kind one_time and the dialogue moved to
\* await_time_confirm, or reports time_error and leaves the dialogue data,
\* pending_kind, pending_run_at and the expected step among them, as it was.
C39_StoresOnlyFuture ==
    [][(/\ fcall.fn = "handle_time_parse_and_confirm"
        /\ result = Pending
        /\ result'.state = "returned") =>
        \/ /\ fsm'.reply = "confirm_prompt"
           /\ fsm'.data.expected = "await_time_confirm"
           /\ fsm'.data.pending_kind = "one_time"
           /\ fsm'.data.pending_run_at > fcall.now
        \/ /\ fsm'.reply = "time_error"
           /\ fsm'.data = fsm.data]_vars

\* dateparser recognised the very minute of `now`: time_error, the pending
\* interval dialogue untouched
C39_Witness ==
    /\ Handled
    /\ fcall.parsed = fcall.now
    /\ fsm.reply = "time_error"
    /\ fsm.data.pending_kind = "interval"
    /\ fsm.data.pending_run_at = NoTime
    /\ fsm.data.expected = "await_time"

C34_PaymentGuard ==
    [][ fcall'.fn = "PaymentGuard" =>
          LET e == fcall'.event
              cancels == e.kind = "Message" /\ fsm.state = Waiting
                         /\ ~e.successful_payment
              invoice == fsm.data.invoice_chat_id # 0
                         /\ fsm.data.invoice_message_id # 0
          IN  /\ fsm'.handled = fsm.handled + 1
              /\ cancels =>
                    /\ fsm'.state = "" /\ fsm'.data = NoData
                    /\ result' = Returned("")
                    /\ invoice => fsm'.deletes = fsm.deletes + 1
              /\ ~cancels =>
                    /\ fsm'.state = fsm.state /\ fsm'.data = fsm.data
                    /\ fsm'.deletes = fsm.deletes
                    /\ result' = Returned(fsm.state) ]_vars

\* the wait was cancelled by a message whose invoice deletion raised, and the
\* handler ran on the cleared dialogue
C34_Witness ==
    /\ fcall.fn = "PaymentGuard"
    /\ fcall.event.kind = "Message"
    /\ ~fcall.event.successful_payment
    /\ fcall.event.delete_raises
    /\ fsm.state = "" /\ fsm.data = NoData
    /\ fsm.deletes = 1 /\ fsm.handled = 1
    /\ result = Returned("")

\* C35: in every reachable state of the reminder service a timer is
\* registered for a reminder id only if the store holds a reminder of that id
\* with status active and a non-null next_run_utc.
C35_TimersDerivedFromStore ==
    app = "reminder" =>
        \A j \in BagToSet(jobs) :
            j.id[1] = "reminder" =>
                /\ Exists(reminders, j.id[2])
                /\ Row(j.id[2]).status = "active"
                /\ Row(j.id[2]).next_run_utc # NoTime

\* C36: when the alert creation flow, the delete action, a job run or
\* rebuild_from_db has completed, a job alert:<id> is registered if and only
\* if alert <id> is enabled in the store.
C36_AlertsAgreeWithJobs ==
    (app = "alert" /\ last.op \in {"create", "delete", "fire", "rebuild"}) =>
        \A id \in DOMAIN alerts :
            alerts[id].enabled <=> NumJobs(jobs, job_id_for(id)) > 0

\* C37: every timer registered for a reminder is bound to the delivery job
\* function supplied by the caller, also the timer registered for the next
\* occurrence after a fire of a recurring reminder.
C37_TimersBoundToJobFunc ==
    app = "reminder" =>
        \A j \in BagToSet(jobs) : j.id[1] = "reminder" => j.func = "job_func"

\* C38: a delete request for an existing alert by a user who does not own it
\* leaves the alert row as it was and the scheduler job alert:<id> registered.
C38_ForeignDeleteChangesNothing ==
    [][ ( /\ app = "alert"
          /\ last'.op = "delete"
          /\ last'.id \in DOMAIN alerts
          /\ ~last'.ok )
        => /\ alerts' = alerts
           /\ NumJobs(jobs', job_id_for(last'.id)) = NumJobs(jobs, job_id_for(last'.id))
      ]_vars

\* the window of the call in minutes of the day
WindowFrom == 60 * IntOf(fcall.window_start.hh) + IntOf(fcall.window_start.mm)
WindowTo == 60 * IntOf(fcall.window_end.hh) + IntOf(fcall.window_end.mm)

\* the minute of the day a two-digit HH:MM text names
MinuteOf(t) ==
    IF Len(t.hh) = 2 /\ Len(t.mm) = 2 /\ t.sep = ":"
    THEN 60 * IntOf(t.hh) + IntOf(t.mm)
    ELSE NoTime

\* C40: for a step > 0 compute_times_in_window returns exactly the times
\* start, start+step, ... that do not exceed end, in increasing order (none
\* when start is after end), and schedule_window_daily leaves one job per
\* returned time, each under its own job id and firing at that time.
C40_WindowTimes ==
    (fcall.fn = "schedule_window_daily" /\ result # Pending) =>
        LET times == result.value
            n == IF WindowFrom > WindowTo THEN 0
                 ELSE ((WindowTo - WindowFrom) \div fcall.step_minutes) + 1
        IN  /\ result.state = "returned"
            /\ Len(times) = n
            /\ \A i \in 1..n :
                  /\ MinuteOf(times[i]) = WindowFrom + (i - 1) * fcall.step_minutes
                  /\ MinuteOf(times[i]) <= WindowTo
                  /\ \E j \in BagToSet(jobs) :
                        /\ j.id = csv_job_id(fcall.alert_id, CronSuffix(i))
                        /\ j.trigger.phase = MinuteOf(times[i])
                        /\ CopiesIn(j, jobs) = 1
            /\ BagCardinality(jobs) = n
            /\ Cardinality({j.id : j \in BagToSet(jobs)}) = n

\* "10:15"-"11:00" every 20 minutes: 10:15, 10:35, 10:55, three jobs
C40_Witness ==
    /\ fcall.fn = "schedule_window_daily"
    /\ WindowFrom = 615 /\ WindowTo = 660 /\ fcall.step_minutes = 20
    /\ result.state = "returned"
    /\ Len(result.value) = 3
    /\ result.value[3] = TimeText(<<"1", "0">>, ":", <<"5", "5">>)
    /\ BagCardinality(jobs) = 3

====
